---- MODULE Spec2Model ----
(***************************************************************************)
(* A model of the incremental rebuild and live-sync engine of the          *)
(* NativeScript CLI:                                                       *)
(*   - Project.Source  (dependency resolver and file inventory),           *)
(*   - Project.Target  (delta planner: buildDelta, rebuildDelta,           *)
(*                      applyDelta),                                       *)
(*   - ProjectChangesInfo (change flags and the .nsprepareinfo record),    *)
(*   - PlatformLiveSyncServiceBase (partialSync, batchSync).               *)
(*                                                                         *)
(* Conventions.  A file or directory NAME is the sequence of its           *)
(* dot-separated components ("x.ios.js" is <<"x","ios","js">>), so that    *)
(* the platform-suffix rewriting of buildDelta is computed on the name     *)
(* and not assumed.  A PATH is the sequence of the names of its segments,  *)
(* relative to the project directory.  Directory keys of a delta (the      *)
(* code's strings with a trailing separator) and file keys are kept in     *)
(* separate sets, as in the code.                                          *)
(***************************************************************************)
EXTENDS Integers, Sequences, FiniteSets, TLC

VARIABLES
    \* ---- the project on disk, shared by the rebuild and the prepare ----
    fs,          \* the project directory: path -> [kind, mtime, json]
    clock,       \* wall clock (ms): stamps the files written
    platform,    \* the platform the rebuild or prepare is run for
    \* ---- rebuild pipeline (Project, Project.Source, Project.Target) ----
    pc,          \* position inside Project.rebuild
    source,      \* Project.Source: [packs, dependencies, depKeys]
    delta,       \* the delta computed by rebuildDelta
    planFs,      \* the disk as it was when the delta was computed
    queue,       \* file-system calls applyDelta has still to issue
    round,       \* number of the current rebuild
    buildResult, \* projectBuildResult of the two targets
    returned,    \* what the last Project.rebuild returned (Null before it returns)
    \* ---- ProjectChangesInfo ----
    prep,        \* the last ProjectChangesInfo constructed (Null before the first)
    \* ---- PlatformLiveSyncServiceBase ----
    fileHashes,  \* this.fileHashes: path -> content hash last recorded
    content,     \* the watched files: path -> content hash ("" when absent)
    batch,       \* every SyncBatch created so far; this.batch[platform] is the last
    syncs,       \* the sync invocations made so far: [batch, files]
    added,       \* the calls of SyncBatch.addFile so far: [path, batch]
    removed,     \* the remove-files syncs executed so far
    seen,        \* path -> hash at its last add/change event ("none" after unlink)
    lastEvent,   \* the last partialSync event: [n, event, path, hash, prev]
    \* ---- the sync of one device ----
    device,      \* the device: [platform, isEmulator]
    devenv,      \* $options.liveEdit, the latest build time, changesRequireBuild
    stamp,       \* the .nslivesyncinfo of the device: [exists, time]
    socket,      \* IOSLiveSyncService.socket is set
    wire,        \* the messages written to the socket during the current sync
    dsync,       \* the current sync of the device: its steps left, its log
    \* ---- fileChangeRequiresBuild ----
    asked,       \* the last call of fileChangeRequiresBuild: [file, result]
    \* ---- IOSDebugService ----
    dbg          \* the debug session: its position, its arguments, what it sent

rvars == <<pc, source, delta, planFs, queue, round, buildResult, returned>>
pvars == <<prep>>
svars == <<fileHashes, content, batch, syncs, added, removed, seen, lastEvent>>
dvars == <<device, devenv, stamp, socket, wire, dsync, asked, dbg>>
vars == <<fs, clock, platform, rvars, pvars, svars, dvars>>

Null == [null |-> TRUE]

Range(s) == { s[i] : i \in DOMAIN s }

(***************************************************************************)
(* Names and paths                                                         *)
(***************************************************************************)
nmPlatforms == <<"platforms">>
nmIos == <<"ios">>
nmAndroid == <<"android">>
nmProj == <<"proj">>
nmProject == <<"project">>
nmApp == <<"app">>
nmTnsModules == <<"tns_modules">>
nmSrc == <<"src">>
nmMain == <<"main">>
nmAssets == <<"assets">>
nmNodeModules == <<"node_modules">>
nmPackageJson == <<"package", "json">>
nmAppResources == <<"App_Resources">>
nmFoo == <<"foo">>
nmBar == <<"bar">>
nmBaz == <<"baz">>
nmSub == <<"sub">>
nmLib == <<"lib">>
nmGone == <<"gone">>
nmMainJs == <<"main", "js">>
nmPageJs == <<"page", "js">>
nmIndexJs == <<"index", "js">>
nmXIosJs == <<"x", "ios", "js">>
nmXAndroidJs == <<"x", "android", "js">>
nmXJs == <<"x", "js">>
nmYJs == <<"y", "js">>
nmZJs == <<"z", "js">>
nmMJs == <<"m", "js">>
nmOldJs == <<"old", "js">>
nmAIosB == <<"a", "ios", "b">>
nmAB == <<"a", "b">>
nmViews == <<"views">>
nmIconPng == <<"icon", "png">>
nmIOSResources == <<"iOS">>
nmAndroidResources == <<"Android">>
nmInfoPlist == <<"Info", "plist">>
nmAndroidManifest == <<"AndroidManifest", "xml">>
nmLibA == <<"lib", "a">>
nmPrepareInfo == <<"", "nsprepareinfo">>
nmTnsCoreModules == <<"tns-core-modules">>
nmTnsCoreModulesWidgets == <<"tns-core-modules-widgets">>
nmNodeModulesBackup == <<"node_modules_backup">>
nmPageXml == <<"page", "xml">>

\* The name "." of the App package before its manifest is read.
nmDot == <<"", "">>

\* Every name of the model, in the order readDirectory lists them.
NameOrder ==
    << nmPrepareInfo, nmAndroidResources, nmAndroidManifest, nmAppResources, nmInfoPlist,
       nmAB, nmAIosB, nmAndroid, nmApp, nmAssets, nmBar, nmBaz,
       nmFoo, nmGone, nmIOSResources, nmIconPng, nmIndexJs, nmIos, nmLib, nmLibA, nmMJs,
       nmMain, nmMainJs, nmNodeModules, nmOldJs, nmPackageJson, nmPageJs, nmPlatforms,
       nmProj, nmProject, nmSrc, nmSub, nmTnsModules, nmViews, nmXAndroidJs, nmXIosJs, nmXJs,
       nmYJs, nmZJs >>

Parent(p) == SubSeq(p, 1, Len(p) - 1)

\* The proper directory prefixes of a path.
ProperPrefixes(p) == { SubSeq(p, 1, i) : i \in 1..(Len(p) - 1) }

IsPrefix(d, p) == Len(d) <= Len(p) /\ SubSeq(p, 1, Len(d)) = d

IsProperPrefix(d, p) == d # p /\ IsPrefix(d, p)

\* path.substr(n) for a path that starts with the n-segment prefix.
Relative(p, n) == SubSeq(p, n + 1, Len(p))

\* utils.path.basedirs: all base directories of dir, in ascending order.
basedirs(dir) == [ i \in 1..Len(dir) |-> SubSeq(dir, 1, i) ]

(***************************************************************************)
(* FileStore: the file-system surface the core needs ($fs).  The           *)
(* implementation is external to the sources; it is modelled from the      *)
(* specification's FileStore (synchronous contract, blocking calls).       *)
(***************************************************************************)
Exists(f, p) == p = <<>> \/ p \in DOMAIN f

IsDirectory(f, p) == p = <<>> \/ (p \in DOMAIN f /\ f[p].kind = "dir")

IsFile(f, p) == p \in DOMAIN f /\ f[p].kind = "file"

ReadDirectory(f, dir) == SelectSeq(NameOrder, LAMBDA n : Append(dir, n) \in DOMAIN f)

DirEntry == [kind |-> "dir", mtime |-> 0, json |-> Null]

FileEntry(m) == [kind |-> "file", mtime |-> m, json |-> Null]

JsonEntry(m, j) == [kind |-> "file", mtime |-> m, json |-> j]

\* createDirectory: no-op on an existing directory; an error when the path
\* is a file or the parent is no directory.
createDirectory(f, dir) ==
    IF IsDirectory(f, dir) THEN [ok |-> TRUE, fs |-> f]
    ELSE IF Exists(f, dir) \/ ~IsDirectory(f, Parent(dir)) THEN [ok |-> FALSE, fs |-> f]
    ELSE [ok |-> TRUE, fs |-> (dir :> DirEntry) @@ f]

\* copyFile: writes the target, stamped with the current time; an error
\* when the target is a directory or its parent is no directory.
copyFile(f, to, t) ==
    IF IsDirectory(f, to) \/ ~IsDirectory(f, Parent(to)) THEN [ok |-> FALSE, fs |-> f]
    ELSE [ok |-> TRUE, fs |-> (to :> FileEntry(t)) @@ f]

\* deleteFile: removes the file; a missing file is no error.
deleteFile(f, file) ==
    IF IsFile(f, file)
    THEN [ok |-> TRUE, fs |-> [p \in DOMAIN f \ {file} |-> f[p]]]
    ELSE [ok |-> ~Exists(f, file), fs |-> f]

\* deleteDirectory: removes the directory and all it holds.
deleteDirectory(f, dir) ==
    [ok |-> TRUE, fs |-> [p \in { q \in DOMAIN f : ~IsPrefix(dir, q) } |-> f[p]]]

(***************************************************************************)
(* Project.Source: selectDependencyPackages                                *)
(***************************************************************************)
\* semver.gt on versions <<major, minor, patch>>.
SemverGt(a, b) ==
    \/ a[1] > b[1]
    \/ a[1] = b[1] /\ a[2] > b[2]
    \/ a[1] = b[1] /\ a[2] = b[2] /\ a[3] > b[3]

\* The App package as the Source constructor creates it.
AppPackage ==
    [ type |-> "App", name |-> <<nmDot>>, path |-> <<>>, packageJson |-> Null,
      version |-> <<>>, resolvedAtParent |-> {}, resolvedAtGrandparent |-> {},
      children |-> <<>>, scriptFiles |-> <<>>, directories |-> <<>>,
      availability |-> "Available" ]

NewSource == [ packs |-> (<<>> :> AppPackage), dependencies |-> <<>>, depKeys |-> <<>> ]

SetAvailability(st, p, a) == [st EXCEPT !.packs[p].availability = a]

\* dependencies[name] = pack; a new key goes to the end of the key order.
SetDependency(st, name, p) ==
    [st EXCEPT !.dependencies = (name :> p) @@ [k \in DOMAIN @ \ {name} |-> @[k]],
               !.depKeys = IF name \in DOMAIN st.dependencies THEN @ ELSE Append(@, name)]

\* The conflict branch, were the incumbent always kept.
ResolveConflict_KeepsFirst(st, p, json) == SetAvailability(st, p, "ShadowedByDiverged")

\* The conflict branch, were a tie to replace the incumbent.
ResolveConflict_TieReplaces(st, p, json) ==
    LET name == st.packs[p].name
        other == st.dependencies[name]
    IN  IF ~SemverGt(st.packs[other].packageJson.version, json.version)
        THEN SetDependency(
                 SetAvailability(SetAvailability(st, p, "Available"), other, "ShadowedByDiverged"),
                 name, p)
        ELSE SetAvailability(st, p, "ShadowedByDiverged")

\* The conflict branch: the name is already in `dependencies`.
ResolveConflict(st, p, json) ==
    LET name == st.packs[p].name
        other == st.dependencies[name]
        packVersion == json.version
        otherVersion == st.packs[other].packageJson.version
    IN  IF SemverGt(packVersion, otherVersion)
        THEN SetDependency(
                 SetAvailability(SetAvailability(st, p, "Available"), other, "ShadowedByDiverged"),
                 name, p)
        ELSE SetAvailability(st, p, "ShadowedByDiverged")

ChildPackage(pack, dependency, resolved) ==
    [ type |-> "Package", name |-> <<dependency>>,
      path |-> pack.path \o <<nmNodeModules, dependency>>,
      packageJson |-> Null, version |-> <<>>,
      resolvedAtGrandparent |-> pack.resolvedAtParent, resolvedAtParent |-> resolved,
      children |-> <<>>, scriptFiles |-> <<>>, directories |-> <<>>,
      availability |-> "NotInstalled" ]

AddChild(st, p, child) ==
    [st EXCEPT !.packs = [((child.path :> child) @@ @) EXCEPT ![p].children = Append(@, child.path)]]

RECURSIVE selectDependencyPackages(_, _, _)
RECURSIVE selectChildren(_, _, _, _, _)

selectChildren(f, st, p, resolved, i) ==
    LET pack == st.packs[p]
        deps == pack.packageJson.dependencies
    IN  IF i > Len(deps) THEN st
        ELSE LET child == ChildPackage(pack, deps[i], resolved)
             IN  selectChildren(f,
                     selectDependencyPackages(f, AddChild(st, p, child), child.path),
                     p, resolved, i + 1)

selectDependencyPackages(f, st, p) ==
    LET pack == st.packs[p]
        packageJsonPath == pack.path \o <<nmPackageJson>>
    IN  IF ~Exists(f, packageJsonPath)
        THEN SetAvailability(st, p, "NotInstalled")
        ELSE IF pack.name \in pack.resolvedAtGrandparent
        THEN SetAvailability(st, p, "ShadowedByAncestor")
        ELSE
            LET json == f[packageJsonPath].json
                st1 == [st EXCEPT !.packs[p].packageJson = json,
                                  !.packs[p].version = json.version]
                st2 == IF pack.type = "App"
                       THEN IF json.nativescript # Null /\ json.nativescript.id # <<>>
                            THEN [st1 EXCEPT !.packs[p].name = <<json.nativescript.id>>]
                            ELSE st1
                       ELSE IF pack.name \in DOMAIN st1.dependencies
                       THEN ResolveConflict(st1, p, json)
                       ELSE SetDependency(SetAvailability(st1, p, "Available"), pack.name, p)
                resolved == pack.resolvedAtParent \cup { <<d>> : d \in Range(json.dependencies) }
            IN  selectChildren(f, st2, p, resolved, 1)

(***************************************************************************)
(* Project.Source: the file inventory                                      *)
(***************************************************************************)
SourceFile(rel, nm, abs, m) == [path |-> rel, name |-> nm, absolutePath |-> abs, mtime |-> m]

NestedPackage(pack, path, json) ==
    [ type |-> "Nested", name |-> Relative(path, Len(pack.path)), path |-> path,
      packageJson |-> json, version |-> <<>>,
      resolvedAtParent |-> {}, resolvedAtGrandparent |-> {},
      children |-> <<>>, scriptFiles |-> <<>>, directories |-> <<>>,
      availability |-> "Available" ]

\* A nested package was found: it is recorded in `dependencies` unless the
\* name is taken, in which case the enclosing package is demoted.
RegisterNested(st, p, nested) ==
    LET st1 == AddChild(st, p, nested)
    IN  IF nested.name \in DOMAIN st1.dependencies
        THEN SetAvailability(st1, p, "ShadowedByDiverged")
        ELSE SetDependency(st1, nested.name, nested.path)

\* The paths listNestedPackageFiles skips.
ignorePaths(pack) ==
    { pack.path \o <<nmNodeModules>> }
        \cup (IF pack.packageJson.nativescript # Null
              THEN { pack.path \o <<nmPlatforms>> } ELSE {})

RECURSIVE listNestedPackageFiles(_, _, _, _, _)
RECURSIVE listNestedEntries(_, _, _, _, _, _, _)

listNestedEntries(f, st, p, dir, fileScope, names, i) ==
    IF i > Len(names) THEN st
    ELSE
        LET pack == st.packs[p]
            modulePackageJson == pack.path \o <<nmPackageJson>>
            path == Append(dir, names[i])
            packageJsonPath == Append(path, nmPackageJson)
            scopePathLength == Len(st.packs[fileScope].path)
            st1 ==
                IF path \in ignorePaths(pack) THEN st
                ELSE IF IsDirectory(f, path) THEN
                    IF modulePackageJson # packageJsonPath /\ Exists(f, packageJsonPath)
                    THEN LET nested == NestedPackage(pack, path, f[packageJsonPath].json)
                         IN  listNestedPackageFiles(f, RegisterNested(st, p, nested),
                                                    p, path, nested.path)
                    ELSE listNestedPackageFiles(f,
                             [st EXCEPT !.packs[fileScope].directories =
                                            Append(@, Relative(path, scopePathLength))],
                             p, path, fileScope)
                ELSE IF IsFile(f, path) THEN
                    [st EXCEPT !.packs[fileScope].scriptFiles =
                        Append(@, SourceFile(Relative(path, scopePathLength), names[i],
                                             path, f[path].mtime))]
                ELSE st
        IN  listNestedEntries(f, st1, p, dir, fileScope, names, i + 1)

listNestedPackageFiles(f, st, p, dir, fileScope) ==
    listNestedEntries(f, st, p, dir, fileScope, ReadDirectory(f, dir), 1)

RECURSIVE listDependencyScriptFiles(_, _, _)
RECURSIVE listChildrenScriptFiles(_, _, _, _)

listChildrenScriptFiles(f, st, children, i) ==
    IF i > Len(children) THEN st
    ELSE listChildrenScriptFiles(f, listDependencyScriptFiles(f, st, children[i]),
                                 children, i + 1)

listDependencyScriptFiles(f, st, p) ==
    LET pack == st.packs[p]
        st1 == IF pack.type = "Package" /\ pack.availability = "Available"
               THEN listNestedPackageFiles(f, st, p, pack.path, p)
               ELSE st
    IN  listChildrenScriptFiles(f, st1, st1.packs[p].children, 1)

RECURSIVE listAppFiles(_, _, _, _, _)

\* The closure listAppFiles of listAppScriptFiles, over the entries of dir.
listAppFiles(f, st, dir, names, i) ==
    IF i > Len(names) THEN st
    ELSE
        LET path == Append(dir, names[i])
            ignoreFiles == { <<nmApp, nmAppResources>> }
            st1 ==
                IF path \in ignoreFiles THEN st
                ELSE IF IsDirectory(f, path) THEN
                    listAppFiles(f, [st EXCEPT !.packs[<<>>].directories = Append(@, path)],
                                 path, ReadDirectory(f, path), 1)
                ELSE IF IsFile(f, path) THEN
                    [st EXCEPT !.packs[<<>>].scriptFiles =
                        Append(@, SourceFile(path, names[i], path, f[path].mtime))]
                ELSE st
        IN  listAppFiles(f, st1, dir, names, i + 1)

listAppScriptFiles(f, st) ==
    LET appPath == <<nmApp>>
    IN  IF Exists(f, appPath)
        THEN listAppFiles(f, [st EXCEPT !.packs[<<>>].directories = Append(@, appPath)],
                          appPath, ReadDirectory(f, appPath), 1)
        ELSE st

(***************************************************************************)
(* Project.Target: buildDelta                                              *)
(***************************************************************************)
Platforms == {"ios", "android"}

\* Target.IOS and Target.Android: the output layout (basename(project.path)
\* is "proj").
OutPaths(plat) ==
    IF plat = "ios"
    THEN [ root    |-> <<nmPlatforms, nmIos>>,
           app     |-> <<nmPlatforms, nmIos, nmProj, nmApp>>,
           modules |-> <<nmPlatforms, nmIos, nmProj, nmApp, nmTnsModules>> ]
    ELSE [ root    |-> <<nmPlatforms, nmAndroid>>,
           app     |-> <<nmPlatforms, nmAndroid, nmSrc, nmMain, nmAssets, nmApp>>,
           modules |-> <<nmPlatforms, nmAndroid, nmSrc, nmMain, nmAssets, nmApp, nmTnsModules>> ]

\* name.indexOf("." + plat + ".") >= 0: the infix is a whole component of
\* the name with a dot on either side.
InfixAt(name, plat) == { i \in 2..(Len(name) - 1) : name[i] = plat }

HasInfix(name, plat) == InfixAt(name, plat) # {}

Min(S) == CHOOSE x \in S : \A y \in S : x <= y

\* name.replace("." + plat + ".", "."): the first occurrence only.
ReplaceInName(name, plat) ==
    IF HasInfix(name, plat)
    THEN LET i == Min(InfixAt(name, plat))
         IN  SubSeq(name, 1, i - 1) \o SubSeq(name, i + 1, Len(name))
    ELSE name

\* file.path.replace(platformSuffix, "."): String.replace rewrites the first
\* occurrence in the whole relative path, whichever segment holds it.
ReplaceInPath(path, plat) ==
    LET hits == { k \in DOMAIN path : HasInfix(path[k], plat) }
    IN  IF hits = {} THEN path
        ELSE [path EXCEPT ![Min(hits)] = ReplaceInName(@, plat)]

\* mapPath of buildDelta: an app path to its place under output.app; Null
\* for "app/" itself.
mapPath(output, path) ==
    LET relativePath == Relative(path, 1)
    IN  IF Len(relativePath) > 0 THEN output.app \o relativePath ELSE Null

RECURSIVE copyApp(_, _, _, _)

copyApp(copy, output, files, i) ==
    IF i > Len(files) THEN copy
    ELSE copyApp((mapPath(output, files[i].path) :> files[i]) @@ copy, output, files, i + 1)

\* The target of one dependency script file.
copyTarget(output, pack, file, plat) ==
    output.modules \o pack.name \o ReplaceInPath(file.path, plat)

RECURSIVE copyAll(_, _, _, _, _)

copyAll(copy, output, pack, plat, i) ==
    LET files == pack.scriptFiles
        platformSuffixFilter == Platforms \ {plat}
    IN  IF i > Len(files) THEN copy
        ELSE IF \E f \in platformSuffixFilter : HasInfix(files[i].name, f)
        THEN copyAll(copy, output, pack, plat, i + 1)
        ELSE copyAll((copyTarget(output, pack, files[i], plat) :> files[i]) @@ copy,
                     output, pack, plat, i + 1)

mkdirAll(output, pack) ==
    IF pack.type = "App" THEN {}
    ELSE { output.modules \o SubSeq(pack.name, 1, i) : i \in 1..Len(pack.name) }
            \cup { output.modules \o pack.name \o dir : dir \in Range(pack.directories) }

RECURSIVE copyDependencies(_, _, _, _, _)

copyDependencies(copy, output, src, plat, i) ==
    IF i > Len(src.depKeys) THEN copy
    ELSE copyDependencies(
             copyAll(copy, output, src.packs[src.dependencies[src.depKeys[i]]], plat, 1),
             output, src, plat, i + 1)

buildDelta(src, plat) ==
    LET output == OutPaths(plat)
        app == src.packs[<<>>]
        appDirs == { mapPath(output, d) : d \in { e \in Range(app.directories) : Len(e) > 1 } }
    IN  [ mkdir |-> Range(basedirs(output.app)) \cup Range(basedirs(output.modules))
                    \cup appDirs
                    \cup UNION { mkdirAll(output, src.packs[src.dependencies[k]]) :
                                     k \in DOMAIN src.dependencies },
          copy |-> copyDependencies(copyApp(<<>>, output, app.scriptFiles, 1),
                                    output, src, plat, 1),
          rmfile |-> {},
          rmdir |-> {} ]

(***************************************************************************)
(* Project.Target: rebuildDelta                                            *)
(***************************************************************************)
Without(fn, k) == [x \in DOMAIN fn \ {k} |-> fn[x]]

\* One existing directory met by diff, were it scheduled for removal even
\* when the build wants it.
diffDirectory_AlwaysRmdir(d, dirPath) ==
    [d EXCEPT !.rmdir = @ \cup {dirPath}]

\* One existing directory met by diff.
diffDirectory(d, dirPath) ==
    IF dirPath \in d.mkdir
    THEN [d EXCEPT !.mkdir = @ \ {dirPath}]
    ELSE [d EXCEPT !.rmdir = @ \cup {dirPath}]

\* One existing file met by diff.
diffFile(d, filePath, targetMtime) ==
    IF filePath \in DOMAIN d.copy
    THEN LET newer == targetMtime < d.copy[filePath].mtime
         IN  IF ~newer THEN [d EXCEPT !.copy = Without(@, filePath)] ELSE d
    ELSE [d EXCEPT !.rmfile = @ \cup {filePath}]

RECURSIVE diff(_, _, _)
RECURSIVE diffEntries(_, _, _, _, _)

diffEntries(f, d, dirPath, names, i) ==
    IF i > Len(names) THEN d
    ELSE diffEntries(f, diff(f, d, Append(dirPath, names[i])), dirPath, names, i + 1)

diff(f, d, filePath) ==
    IF filePath \in d.diffed THEN d
    ELSE LET d0 == [d EXCEPT !.diffed = @ \cup {filePath}]
         IN  IF IsDirectory(f, filePath)
             THEN diffEntries(f, diffDirectory(d0, filePath), filePath,
                              ReadDirectory(f, filePath), 1)
             ELSE IF IsFile(f, filePath)
             THEN diffFile(d0, filePath, f[filePath].mtime)
             ELSE d0

\* The pruning of the base directories that exist.
pruneBasedirs(f, d, dir) ==
    [d EXCEPT !.mkdir = @ \ { b \in Range(basedirs(dir)) : Exists(f, b) /\ b \in d.mkdir }]

rebuildDelta(f, src, plat) ==
    LET output == OutPaths(plat)
        built == buildDelta(src, plat)
        d0 == [copy |-> built.copy, mkdir |-> built.mkdir, rmdir |-> {}, rmfile |-> {},
               diffed |-> {}]
        d1 == IF Exists(f, output.app) THEN diff(f, d0, output.app) ELSE d0
        d2 == pruneBasedirs(f, d1, output.app)
        d3 == IF Exists(f, output.modules) THEN diff(f, d2, output.modules) ELSE d2
        d4 == pruneBasedirs(f, d3, output.modules)
    IN  [copy |-> d4.copy, mkdir |-> d4.mkdir, rmdir |-> d4.rmdir, rmfile |-> d4.rmfile]

(***************************************************************************)
(* Project.Target: applyDelta                                              *)
(***************************************************************************)
\* The components of the model's names, in code-unit order (Array.sort).
CompOrder ==
    << "", "Android", "AndroidManifest", "App_Resources", "Info", "a", "android", "app", "assets", "b", "bar", "baz", "foo",
       "gone", "iOS", "icon", "index", "ios", "js", "json", "lib", "m", "main",
       "node_modules", "nsprepareinfo", "old", "package", "page", "platforms", "plist",
       "png", "proj", "src", "sub", "tns_modules", "views", "x", "xml", "y", "z" >>

Rank(c) == CHOOSE i \in DOMAIN CompOrder : CompOrder[i] = c

\* The order of two different names as segments followed by a separator:
\* at the first component that differs the components decide; a name that
\* is a component prefix of the other is followed by "/" where the other
\* has ".", and "." sorts before "/".
NameLess(a, b) ==
    LET common == { i \in 1..Len(a) : i <= Len(b) /\ a[i] # b[i] }
    IN  IF common # {} THEN Rank(a[Min(common)]) < Rank(b[Min(common)])
        ELSE Len(a) > Len(b)

\* String order of two different keys of the same kind.
PathLess(p, q) ==
    LET differ == { k \in 1..Len(p) : k <= Len(q) /\ p[k] # q[k] }
    IN  IF differ # {} THEN NameLess(p[Min(differ)], q[Min(differ)])
        ELSE Len(p) < Len(q)

RECURSIVE SortPaths(_)

\* Object.keys(set).sort()
SortPaths(S) ==
    IF S = {} THEN <<>>
    ELSE LET first == CHOOSE x \in S : \A y \in S \ {x} : PathLess(x, y)
         IN  <<first>> \o SortPaths(S \ {first})

Reverse(s) == [ i \in 1..Len(s) |-> s[Len(s) + 1 - i] ]

Ops(kind, paths) == [ i \in 1..Len(paths) |-> [op |-> kind, path |-> paths[i]] ]

\* applyDelta, were the rmdir keys sorted but not reversed.
applyOps_RmdirAscending(d) ==
    Ops("mkdir", SortPaths(d.mkdir)) \o Ops("copy", SortPaths(DOMAIN d.copy))
        \o Ops("rmfile", SortPaths(d.rmfile)) \o Ops("rmdir", SortPaths(d.rmdir))

\* The file-system calls of applyDelta, in the order it issues them.
applyOps(d) ==
    LET mkdir == SortPaths(d.mkdir)
        copy == SortPaths(DOMAIN d.copy)
        rmfile == SortPaths(d.rmfile)
        rmdir == Reverse(SortPaths(d.rmdir))
    IN  Ops("mkdir", mkdir) \o Ops("copy", copy) \o Ops("rmfile", rmfile) \o Ops("rmdir", rmdir)

\* One file-system call of applyDelta.
applyOp(f, o, t) ==
    CASE o.op = "mkdir"  -> createDirectory(f, o.path)
      [] o.op = "copy"   -> copyFile(f, o.path, t)
      [] o.op = "rmfile" -> deleteFile(f, o.path)
      [] o.op = "rmdir"  -> deleteDirectory(f, o.path)

(***************************************************************************)
(* The native files of the source and the "check native code" step         *)
(***************************************************************************)
\* The files beneath a directory, at any depth.
FilesUnder(f, dir) ==
    { p \in DOMAIN f : IsProperPrefix(dir, p) /\ f[p].kind = "file" }

NoNativeFiles == [ listed |-> FALSE, mtimes |-> {} ]

NativeFiles(mtimes) == [ listed |-> TRUE, mtimes |-> mtimes ]

\* listNativeFilesInPackage: the mtimes of pack.nativeFiles[plat], when the
\* package has such a list.  The Source constructor lists them; the
\* rebuild writes nothing beneath the source, so the files are the same when
\* the check reads them.
packageNativeFiles(f, pack, plat) ==
    LET ns == IF pack.packageJson = Null THEN Null ELSE pack.packageJson.nativescript
        platformDir == pack.path \o <<nmPlatforms, <<plat>>>>
    IN  IF /\ ns # Null
           /\ "platforms" \in DOMAIN ns
           /\ plat \in ns.platforms
           /\ Exists(f, platformDir)
        THEN NativeFiles({ f[p].mtime : p \in FilesUnder(f, platformDir) })
        ELSE NoNativeFiles

\* listAppNativeFiles: the mtimes of the entries of app/App_Resources/<plat>.
appNativeFiles(f, plat) ==
    LET platformDir == <<nmApp, nmAppResources, <<plat>>>>
    IN  IF Exists(f, platformDir)
        THEN NativeFiles({ f[Append(platformDir, n)].mtime :
                               n \in Range(ReadDirectory(f, platformDir)) })
        ELSE NoNativeFiles

\* nativeFiles && nativeFiles.some(file => file.mtime > outputProjectMtime)
hasNewerNativeFiles(nativeFiles, outputProjectMtime) ==
    nativeFiles.listed /\ \E mtime \in nativeFiles.mtimes : mtime > outputProjectMtime

hasNativeChanges(f, st, plat) ==
    LET projectAbsolutePath == Append(OutPaths(plat).root, nmProject)
    IN  IF Exists(f, projectAbsolutePath)
        THEN LET outputProjectMtime == f[projectAbsolutePath].mtime
             IN  \/ \E dep \in DOMAIN st.dependencies :
                       hasNewerNativeFiles(
                           packageNativeFiles(f, st.packs[st.dependencies[dep]], plat),
                           outputProjectMtime)
                 \/ hasNewerNativeFiles(appNativeFiles(f, plat), outputProjectMtime)
        ELSE TRUE

\* $fs.writeFile: the file is written, its directories created.
writeFile(f, path, t) ==
    LET dirs == { d \in ProperPrefixes(path) : d \notin DOMAIN f }
    IN  (path :> FileEntry(t)) @@ [ d \in dirs |-> DirEntry ] @@ f

\* What Project.rebuild returns: after the switch, the projectBuildResult of
\* the iOS target is assigned whatever the platform.
projectBuildResult(results, plat) == results["ios"]

(***************************************************************************)
(* Project.rebuild: the steps of one rebuild, in the order the code runs   *)
(* them (Source constructor, then Target.rebuild).                         *)
(***************************************************************************)
MaxRebuilds == 2

\* The projectBuildResult a Target starts with.
NewBuildResult == [ changedNativeProject |-> FALSE, changedScripts |-> FALSE ]

NoDelta == [copy |-> <<>>, mkdir |-> {}, rmdir |-> {}, rmfile |-> {}]

\* "read dependencies"
ReadDependencies ==
    /\ pc = "start"
    /\ source' = selectDependencyPackages(fs, NewSource, <<>>)
    /\ pc' = "deps"
    /\ UNCHANGED <<fs, clock, platform, delta, planFs, queue, round, buildResult, returned, pvars, svars, dvars>>

\* "read dependencies script files"
ReadDependencyScriptFiles ==
    /\ pc = "deps"
    /\ source' = listDependencyScriptFiles(fs, source, <<>>)
    /\ pc' = "depfiles"
    /\ UNCHANGED <<fs, clock, platform, delta, planFs, queue, round, buildResult, returned, pvars, svars, dvars>>

\* "read app script files"
ReadAppScriptFiles ==
    /\ pc = "depfiles"
    /\ source' = listAppScriptFiles(fs, source)
    /\ pc' = "source"
    /\ UNCHANGED <<fs, clock, platform, delta, planFs, queue, round, buildResult, returned, pvars, svars, dvars>>

\* The two targets are created; "rebuild delta" of the one asked for, and
\* the start of its "apply delta".
RebuildDelta ==
    /\ pc = "source"
    /\ delta' = rebuildDelta(fs, source, platform)
    /\ planFs' = fs
    /\ queue' = applyOps(delta')
    /\ pc' = "apply"
    /\ buildResult' = [ p \in Platforms |-> NewBuildResult ]
    /\ UNCHANGED <<fs, clock, platform, source, round, returned, pvars, svars, dvars>>

\* One file-system call of applyDelta.  createDirectory and copyFile are
\* waited for, so their failure ends the rebuild; deleteFile and
\* deleteDirectory are not.
ApplyStep ==
    /\ pc = "apply"
    /\ queue # <<>>
    /\ LET o == Head(queue)
           r == applyOp(fs, o, clock)
       IN  IF r.ok \/ o.op \in {"rmfile", "rmdir"}
           THEN /\ fs' = r.fs
                /\ queue' = Tail(queue)
                /\ pc' = "apply"
           ELSE /\ fs' = fs
                /\ queue' = queue
                /\ pc' = "failed"
    /\ UNCHANGED <<clock, platform, source, delta, planFs, round, buildResult, returned, pvars, svars, dvars>>

\* changedScripts, were the copied files not looked at.
changedScripts_RemovalsOnly(d) == d.rmfile # {}

\* copy.length > 0 || rmfile.length > 0
changedScripts(d) == DOMAIN d.copy # {} \/ d.rmfile # {}

\* The end of applyDelta.
ApplyDone ==
    /\ pc = "apply"
    /\ queue = <<>>
    /\ pc' = "native"
    /\ buildResult' = [buildResult EXCEPT ![platform].changedScripts = changedScripts(delta)]
    /\ UNCHANGED <<fs, clock, platform, source, delta, planFs, queue, round, returned,
                   pvars, svars, dvars>>

\* "check native code", the last step of Target.rebuild, and the return of
\* Project.rebuild.
CheckNativeCode ==
    /\ pc = "native"
    /\ LET projectAbsolutePath == Append(OutPaths(platform).root, nmProject)
       IN  /\ fs' = writeFile(fs, projectAbsolutePath, clock)
           /\ buildResult' = [buildResult EXCEPT ![platform].changedNativeProject =
                                  hasNativeChanges(fs, source, platform)]
    /\ returned' = projectBuildResult(buildResult', platform)
    /\ pc' = "done"
    /\ UNCHANGED <<clock, platform, source, delta, planFs, queue, round, pvars, svars, dvars>>

\* The next Project.rebuild on the same project, nothing touched in between.
RebuildAgain ==
    /\ pc = "done"
    /\ round < MaxRebuilds
    /\ round' = round + 1
    /\ clock' = clock + 1
    /\ pc' = "start"
    /\ source' = NewSource
    /\ returned' = Null
    /\ UNCHANGED <<fs, platform, delta, planFs, queue, buildResult, pvars, svars, dvars>>

RebuildNext ==
    \/ ReadDependencies
    \/ ReadDependencyScriptFiles
    \/ ReadAppScriptFiles
    \/ RebuildDelta
    \/ ApplyStep
    \/ ApplyDone
    \/ CheckNativeCode
    \/ RebuildAgain

(***************************************************************************)
(* The projects the rebuild is run on                                      *)
(***************************************************************************)
MaxMinor == 2
MaxMtime == 2

Version(m) == <<1, m, 0>>

Manifest(v, deps, ns) == [version |-> v, dependencies |-> deps, nativescript |-> ns]

\* A tree from its files (and explicit directories): every ancestor of an
\* entry is a directory.
WithDirs(entries) ==
    LET dirs == UNION { ProperPrefixes(p) : p \in DOMAIN entries }
    IN  [ p \in dirs \cup DOMAIN entries |-> IF p \in DOMAIN entries THEN entries[p] ELSE DirEntry ]

pkgFoo == <<nmNodeModules, nmFoo>>
pkgBar == <<nmNodeModules, nmBar>>
pkgBaz == <<nmNodeModules, nmBaz>>
pkgFooBar == pkgFoo \o <<nmNodeModules, nmBar>>
pkgFooBaz == pkgFoo \o <<nmNodeModules, nmBaz>>
pkgBazBar == pkgBaz \o <<nmNodeModules, nmBar>>
pkgLib == <<nmNodeModules, nmLib>>
pkgLibBar == pkgLib \o <<nmNodeModules, nmBar>>

\* An installed package: its manifest and an index.js.
Installed(p, man, m) ==
    IF man = Null THEN <<>>
    ELSE (Append(p, nmPackageJson) :> JsonEntry(m, man)) @@ (Append(p, nmIndexJs) :> FileEntry(m))

\* A directory of a package that holds its own package.json: a nested package.
NestedDir(p, name, m) ==
    (p \o <<name, nmPackageJson>> :> JsonEntry(m, Manifest(Version(1), <<>>, Null)))
        @@ (p \o <<name, nmMJs>> :> FileEntry(m))

AppFiles(deps, m) ==
    (<<nmPackageJson>> :> JsonEntry(m, Manifest(Version(1), deps,
                                                 [id |-> <<"org", "proj">>])))
        @@ (<<nmApp, nmMainJs>> :> FileEntry(m))
        @@ (<<nmApp, nmViews, nmPageJs>> :> FileEntry(m))
        @@ (<<nmApp, nmAppResources, nmIconPng>> :> FileEntry(m))

\* The manifests a package at a place of the installed tree may have.
Manifests(listed, minors, depChoices) ==
    {Null} \cup (IF listed
                 THEN { Manifest(Version(m), d, Null) : m \in minors, d \in depChoices }
                 ELSE {})

Lists(man, name) == man # Null /\ name \in Range(man.dependencies)

\* The other subsystems at rest.
PrepareIdle == prep = Null

SyncIdle ==
    /\ fileHashes = <<>> /\ content = <<>> /\ batch = <<>> /\ syncs = <<>>
    /\ added = {} /\ removed = <<>> /\ seen = <<>> /\ lastEvent = Null

\* The .nslivesyncinfo of a device: absent, or the time written to it.
NoStamp == [ exists |-> FALSE, time |-> 0 ]

Stamp(t) == [ exists |-> TRUE, time |-> t ]

\* No sync has been run yet.
NoSync ==
    [ n |-> 0, kind |-> "none", status |-> "idle", program |-> <<>>, fiber |-> <<>>,
      log |-> <<>>, files |-> {}, after |-> FALSE, thrown |-> "" ]

DeviceIdle ==
    /\ device = Null /\ devenv = Null /\ stamp = NoStamp /\ socket = FALSE /\ wire = <<>>
    /\ dsync = NoSync

ClassifyIdle == asked = Null

DebugIdle == dbg = Null

RebuildStart ==
    /\ pc = "start" /\ source = NewSource /\ delta = NoDelta /\ planFs = <<>>
    /\ queue = <<>> /\ round = 1 /\ clock = MaxMtime + 1
    /\ buildResult = [ p \in Platforms |-> NewBuildResult ]
    /\ returned = Null

\* Installed trees of depth two over the names foo, baz, lib and bar (a
\* package is installed only where its parent lists it), with an optional
\* nested package ("bar" or "foo") inside foo; the output directory does not exist yet.
InitGraph ==
    /\ \E appDeps \in { <<nmFoo>>, <<nmFoo, nmBaz>>, <<nmBaz, nmFoo>>, <<nmFoo, nmBaz, nmLib>> } :
       \E foo \in Manifests(TRUE, {1}, { <<>>, <<nmBar>>, <<nmBaz>>, <<nmBar, nmBaz>> }) :
       \E baz \in Manifests(nmBaz \in Range(appDeps), {1}, { <<>>, <<nmBar>> }) :
       \E lib \in Manifests(nmLib \in Range(appDeps), {1}, { <<nmBar>> }) :
       \E fooBar \in Manifests(Lists(foo, nmBar), 1..MaxMinor, { <<>> }) :
       \E fooBaz \in Manifests(Lists(foo, nmBaz), 1..MaxMinor, { <<>> }) :
       \E bazBar \in Manifests(Lists(baz, nmBar), 1..MaxMinor, { <<>> }) :
       \E libBar \in Manifests(Lists(lib, nmBar), 1..MaxMinor, { <<>> }) :
       \E nested \in (IF foo = Null THEN {<<>>} ELSE {<<>>, <<nmBar>>, <<nmFoo>>}) :
           fs = WithDirs(AppFiles(appDeps, 1)
                         @@ Installed(pkgFoo, foo, 1) @@ Installed(pkgBaz, baz, 1)
                         @@ Installed(pkgLib, lib, 1)
                         @@ Installed(pkgFooBar, fooBar, 1) @@ Installed(pkgFooBaz, fooBaz, 1)
                         @@ Installed(pkgBazBar, bazBar, 1) @@ Installed(pkgLibBar, libBar, 1)
                         @@ (IF nested # <<>> THEN NestedDir(pkgFoo, nested[1], 1) ELSE <<>>))
    /\ platform \in Platforms
    /\ RebuildStart
    /\ PrepareIdle
    /\ SyncIdle
    /\ DeviceIdle /\ ClassifyIdle /\ DebugIdle

\* What the package foo may hold besides its manifest and index.js.
FooFeatures == {"platform", "suffixdir", "nested", "native"}

FooFiles(feats, m) ==
    Installed(pkgFoo, Manifest(Version(1), <<>>,
                               IF "native" \in feats
                               THEN [platforms |-> {"ios", "android"}] ELSE Null), m)
        @@ (pkgFoo \o <<nmLib, nmYJs>> :> FileEntry(m))
        @@ (IF "native" \in feats
            THEN (pkgFoo \o <<nmPlatforms, nmIos, nmLibA>> :> FileEntry(m))
                     @@ (pkgFoo \o <<nmPlatforms, nmAndroid, nmLibA>> :> FileEntry(m))
            ELSE <<>>)
        @@ (IF "platform" \in feats
            THEN (Append(pkgFoo, nmXIosJs) :> FileEntry(m))
                     @@ (Append(pkgFoo, nmXAndroidJs) :> FileEntry(m))
            ELSE <<>>)
        @@ (IF "suffixdir" \in feats
            THEN (pkgFoo \o <<nmAIosB, nmZJs>> :> FileEntry(m))
                     @@ (pkgFoo \o <<nmAIosB, nmXIosJs>> :> FileEntry(m))
            ELSE <<>>)
        @@ (IF "nested" \in feats THEN NestedDir(pkgFoo, nmBar, m) ELSE <<>>)

\* What the output directory may hold before the rebuild.
DiskFeatures == {"main", "old", "gone", "ab", "conflict"}

DiskFiles(plat, feats, m) ==
    LET out == OutPaths(plat)
    IN  (IF "main" \in feats
         THEN (Append(out.app, nmMainJs) :> FileEntry(m))
                  @@ (Append(out.root, nmProject) :> FileEntry(m))
         ELSE <<>>)
        @@ (IF "old" \in feats THEN (Append(out.app, nmOldJs) :> FileEntry(m)) ELSE <<>>)
        @@ (IF "gone" \in feats
            THEN (out.modules \o <<nmGone, nmSub, nmOldJs>> :> FileEntry(m)) ELSE <<>>)
        @@ (IF "ab" \in feats THEN (out.modules \o <<nmFoo, nmAB>> :> DirEntry) ELSE <<>>)
        @@ (IF "conflict" \in feats
            THEN (out.modules \o <<nmFoo, nmLib>> :> FileEntry(m)) ELSE <<>>)

\* Projects with one or two dependencies, a choice of what foo holds and of
\* what the output directory already holds, older or newer than the source.
InitRebuild ==
    /\ platform \in Platforms
    /\ \E sm \in 1..MaxMtime, dm \in 1..MaxMtime :
       \E feats \in SUBSET FooFeatures :
       \E withBar \in BOOLEAN :
       \E disk \in SUBSET DiskFeatures :
           fs = WithDirs(AppFiles(IF withBar THEN <<nmBar, nmFoo>> ELSE <<nmFoo>>, sm)
                         @@ FooFiles(feats, sm)
                         @@ (IF withBar
                             THEN Installed(pkgBar, Manifest(Version(1), <<>>, Null), sm)
                             ELSE <<>>)
                         @@ DiskFiles(platform, disk, dm))
    /\ RebuildStart
    /\ PrepareIdle
    /\ SyncIdle
    /\ DeviceIdle /\ ClassifyIdle /\ DebugIdle

SpecGraph == InitGraph /\ [][RebuildNext]_vars

SpecRebuild == InitRebuild /\ [][RebuildNext]_vars

(***************************************************************************)
(* ProjectChangesInfo                                                      *)
(***************************************************************************)
TicksPerSecond == 2

\* new Date().toString(): the wall clock at the resolution of one second.
DateString(t) == t \div TicksPerSecond

\* The platform data the constructor reads.
PlatformData(plat) ==
    IF plat = "ios"
    THEN [ projectRoot |-> <<nmPlatforms, nmIos>>,
           normalizedPlatformName |-> nmIOSResources,
           configurationFileName |-> nmInfoPlist ]
    ELSE [ projectRoot |-> <<nmPlatforms, nmAndroid>>,
           normalizedPlatformName |-> nmAndroidResources,
           configurationFileName |-> nmAndroidManifest ]

buildInfoFile(plat) == Append(PlatformData(plat).projectRoot, nmPrepareInfo)

appDirectoryPath == <<nmApp>>

appResourcesDirectoryPath == <<nmApp, nmAppResources>>

\* path.dirname of a relative path; "." is the empty path and its own dirname.
dirname(p) == IF p = <<>> THEN <<>> ELSE Parent(p)

\* The components of the model's names of which one is a proper prefix, as
\* a string, of the other.
PrefixPairs ==
    { <<"node_modules", "node_modules_backup">>,
      <<"tns-core-modules", "tns-core-modules-widgets">> }

StrPrefix(a, b) == a = b \/ <<a, b>> \in PrefixPairs

\* One name is a prefix, as a string, of another: its components but the
\* last are equal to those of the other, and the last is a prefix of the
\* component it meets.
NamePrefix(a, b) ==
    /\ Len(a) <= Len(b)
    /\ \A i \in 1..(Len(a) - 1) : a[i] = b[i]
    /\ a # <<>> => StrPrefix(a[Len(a)], b[Len(a)])

\* _.startsWith on the path strings: the segments before the last one of the
\* prefix are equal, and the last one is a prefix of the segment it meets.
startsWith(file, prefix) ==
    /\ Len(prefix) <= Len(file)
    /\ \A i \in 1..(Len(prefix) - 1) : file[i] = prefix[i]
    /\ prefix # <<>> => NamePrefix(prefix[Len(prefix)], file[Len(prefix)])

RECURSIVE walkUp(_, _, _)

\* The loop of fileChangeRequiresBuild, entered with filePath # "node_modules":
\* "true" when an ancestor holds a manifest with the framework marker and the
\* file lies under its platforms directory, "false" when node_modules is
\* reached, "diverges" when dirname has reached "." and the loop cannot end.
walkUp(f, file, filePath) ==
    LET parent == dirname(filePath)
        fullFilePath == Append(parent, nmPackageJson)
    IN  IF /\ Exists(f, fullFilePath)
           /\ f[fullFilePath].json # Null
           /\ f[fullFilePath].json.nativescript # Null
           /\ startsWith(file, Append(parent, nmPlatforms))
        THEN "true"
        ELSE IF parent = <<nmNodeModules>> THEN "false"
        ELSE IF parent = <<>> THEN "diverges"
        ELSE walkUp(f, file, parent)

fileChangeRequiresBuild(f, file) ==
    IF file # <<>> /\ file[Len(file)] = nmPackageJson THEN "true"
    ELSE IF /\ startsWith(file, <<nmNodeModules>>)
            /\ ~startsWith(file, <<nmNodeModules, nmTnsCoreModules>>)
            /\ file # <<nmNodeModules>>
         THEN walkUp(f, file, file)
         ELSE "false"

\* A newer file under node_modules, were it not counted.
countNewFile_Forgotten(newFiles) == newFiles

\* this.newFiles ++
countNewFile(newFiles) == newFiles + 1

RECURSIVE containsNewerEntries(_, _, _, _, _, _, _, _)

\* containsNewerFiles from the i-th entry of the listing of dir on; the
\* result carries the counter this.newFiles.
containsNewerEntries(f, dir, skipDir, mtime, processFunc, names, i, newFiles) ==
    IF i > Len(names) THEN [changed |-> FALSE, newFiles |-> newFiles]
    ELSE
        LET filePath == Append(dir, names[i])
            changed == f[filePath].mtime > mtime
            counted == IF changed /\ processFunc THEN countNewFile(newFiles) ELSE newFiles
        IN  IF filePath = skipDir
            THEN containsNewerEntries(f, dir, skipDir, mtime, processFunc, names, i + 1, newFiles)
            ELSE IF changed /\ (~processFunc \/ fileChangeRequiresBuild(f, filePath) = "true")
            THEN [changed |-> TRUE, newFiles |-> counted]
            ELSE
                LET inner == IF IsDirectory(f, filePath)
                             THEN containsNewerEntries(f, filePath, skipDir, mtime, processFunc,
                                                       ReadDirectory(f, filePath), 1, counted)
                             ELSE [changed |-> FALSE, newFiles |-> counted]
                IN  IF inner.changed THEN inner
                    ELSE containsNewerEntries(f, dir, skipDir, mtime, processFunc, names,
                                              i + 1, inner.newFiles)

containsNewerFiles(f, dir, skipDir, mtime, processFunc, newFiles) ==
    containsNewerEntries(f, dir, skipDir, mtime, processFunc, ReadDirectory(f, dir), 1, newFiles)

filesChanged(f, files, mtime) ==
    \E i \in DOMAIN files : Exists(f, files[i]) /\ f[files[i]].mtime > mtime

\* The files whose change is a change of the configuration.
configFiles(plat) ==
    LET platformResourcesDir ==
            Append(appResourcesDirectoryPath, PlatformData(plat).normalizedPlatformName)
    IN  IF plat = "ios"
        THEN << Append(platformResourcesDir, PlatformData(plat).configurationFileName),
                Append(platformResourcesDir, <<"LaunchScreen", "storyboard">>),
                Append(platformResourcesDir, <<"build", "xcconfig">>) >>
        ELSE << Append(platformResourcesDir, PlatformData(plat).configurationFileName),
                Append(platformResourcesDir, <<"app", "gradle">>) >>

hasChanges(info) ==
    \/ info.packageChanged
    \/ info.appFilesChanged
    \/ info.appResourcesChanged
    \/ info.modulesChanged
    \/ info.configChanged

changesRequireBuild(info) ==
    info.packageChanged \/ info.appResourcesChanged \/ info.nativeChanged

NoChanges ==
    [ appFilesChanged |-> FALSE, appResourcesChanged |-> FALSE, modulesChanged |-> FALSE,
      configChanged |-> FALSE, packageChanged |-> FALSE, nativeChanged |-> FALSE,
      newFiles |-> 0, prepareInfo |-> Null ]

\* The counter of newer files, were it not read.
modulesChangedByNewFiles_Never(newFiles) == FALSE

\* if (this.newFiles > 0) this.modulesChanged = true
modulesChangedByNewFiles(newFiles) == newFiles > 0

\* The reconciliation, were the options of the record never looked at.
reconcileOptions_Ignored(scanned, stored, options) == [scanned EXCEPT !.prepareInfo = stored]

\* The reconciliation of the record read from disk with $options.bundle and
\* $options.release.
reconcileOptions(scanned, stored, options) ==
    IF options.bundle # stored.bundle \/ options.release # stored.release
    THEN [scanned EXCEPT !.appFilesChanged = TRUE, !.appResourcesChanged = TRUE,
                         !.modulesChanged = TRUE, !.configChanged = TRUE,
                         !.prepareInfo = [stored EXCEPT !.release = options.release,
                                                        !.bundle = options.bundle]]
    ELSE [scanned EXCEPT !.prepareInfo = stored]

\* (No skipDir is the empty path; there are no symbolic links, so stat and
\* lstat agree.)
\* The branch of the constructor taken when the record exists and the
\* prepare is not forced: the scan of the project against the record.
scanProject(f, plat, skipModulesAndResources, options) ==
    LET outputProjectMtime == f[buildInfoFile(plat)].mtime
        stored == f[buildInfoFile(plat)].json
        app == containsNewerFiles(f, appDirectoryPath, appResourcesDirectoryPath,
                                  outputProjectMtime, FALSE, 0)
        resources == containsNewerFiles(f, appResourcesDirectoryPath, <<>>,
                                        outputProjectMtime, FALSE, 0)
        native == containsNewerFiles(f, <<nmNodeModules>>,
                                     <<nmNodeModules, <<"tns-ios-inspector">>>>,
                                     outputProjectMtime, TRUE, 0)
        scanned ==
            IF skipModulesAndResources
            THEN [NoChanges EXCEPT !.appFilesChanged = app.changed]
            ELSE [ appFilesChanged |-> app.changed,
                   packageChanged |-> filesChanged(f, << <<nmPackageJson>> >>, outputProjectMtime),
                   appResourcesChanged |-> resources.changed,
                   nativeChanged |-> native.changed,
                   modulesChanged |-> modulesChangedByNewFiles(native.newFiles),
                   configChanged |-> filesChanged(f, configFiles(plat), outputProjectMtime),
                   newFiles |-> native.newFiles,
                   prepareInfo |-> Null ]
        reconciled == reconcileOptions(scanned, stored, options)
        modules == [reconciled EXCEPT !.modulesChanged = @ \/ reconciled.packageChanged]
    IN  [modules EXCEPT !.configChanged = @ \/ modules.modulesChanged \/ modules.appResourcesChanged]

\* writeJson into an existing directory: the record, stamped with the time
\* of the write.
writeJson(f, file, json, t) == (file :> JsonEntry(t, json)) @@ f

\* new ProjectChangesInfo(platform, force, skipModulesAndResources, ...) at
\* time t: the object constructed and the disk it leaves.
ProjectChangesInfo(f, plat, force, skipModulesAndResources, options, t) ==
    LET info ==
            IF force \/ ~Exists(f, buildInfoFile(plat))
            THEN [NoChanges EXCEPT !.appFilesChanged = TRUE, !.appResourcesChanged = TRUE,
                                   !.modulesChanged = TRUE, !.configChanged = TRUE,
                                   !.prepareInfo = [time |-> -1, \* time: ""
                                                    bundle |-> options.bundle,
                                                    release |-> options.release]]
            ELSE scanProject(f, plat, skipModulesAndResources, options)
    IN  IF hasChanges(info)
        THEN LET stamped == [info EXCEPT !.prepareInfo.time = DateString(t)]
             IN  [ info |-> stamped,
                   fs |-> writeJson(f, buildInfoFile(plat), stamped.prepareInfo, t) ]
        ELSE [ info |-> info, fs |-> f ]

getLatestPrepareInfo(f, plat) ==
    IF Exists(f, buildInfoFile(plat)) THEN f[buildInfoFile(plat)].json ELSE Null

(***************************************************************************)
(* The prepare of a project that is being edited                           *)
(***************************************************************************)
MaxClock == 2

Options == [bundle : BOOLEAN, release : BOOLEAN]

\* A forced prepare does not look at skipModulesAndResources.
PrepareModes ==
    { [force |-> TRUE, skipModulesAndResources |-> FALSE],
      [force |-> FALSE, skipModulesAndResources |-> FALSE],
      [force |-> FALSE, skipModulesAndResources |-> TRUE] }

\* The files of the project an edit may touch.
Touchable(plat) ==
    { <<nmPackageJson>>,
      <<nmApp, nmMainJs>>,
      configFiles(plat)[1],
      <<nmNodeModules, nmFoo, nmIndexJs>>,
      <<nmNodeModules, nmFoo, nmPlatforms, nmIos, nmLibA>> }

PrepareFiles(plat, marker, m) ==
    (<<nmPackageJson>> :> JsonEntry(m, Manifest(Version(1), <<nmFoo>>, [id |-> <<"org", "proj">>])))
        @@ (<<nmNodeModules, nmFoo, nmPackageJson>> :> JsonEntry(m, Manifest(Version(1), <<>>, marker)))
        @@ [ p \in Touchable(plat) \ { <<nmPackageJson>> } |-> FileEntry(m) ]
        @@ (PlatformData(plat).projectRoot :> DirEntry)

\* A file of the project is saved.
Touch(p) ==
    /\ fs[p].mtime # clock
    /\ fs' = [fs EXCEPT ![p].mtime = clock]
    /\ UNCHANGED <<clock, platform, rvars, pvars, svars, dvars>>

Tick ==
    /\ clock < MaxClock
    /\ clock' = clock + 1
    /\ UNCHANGED <<fs, platform, rvars, pvars, svars, dvars>>

\* A prepare constructs the ProjectChangesInfo of the platform.
Prepare(force, skipModulesAndResources, options) ==
    LET r == ProjectChangesInfo(fs, platform, force, skipModulesAndResources, options, clock)
    IN  /\ prep' = r.info
        /\ fs' = r.fs
        /\ UNCHANGED <<clock, platform, rvars, svars, dvars>>

PrepareNext ==
    \/ \E p \in Touchable(platform) : Touch(p)
    \/ Tick
    \/ \E mode \in PrepareModes, options \in Options :
           Prepare(mode.force, mode.skipModulesAndResources, options)

RebuildIdle ==
    /\ pc = "idle" /\ source = NewSource /\ delta = NoDelta /\ planFs = <<>>
    /\ queue = <<>> /\ round = 0
    /\ buildResult = [ p \in Platforms |-> NewBuildResult ]
    /\ returned = Null

\* A project never prepared, with a dependency foo that is or is not a plugin.
InitPrepare ==
    /\ platform \in Platforms
    /\ \E marker \in { Null, [id |-> <<>>] } : fs = WithDirs(PrepareFiles(platform, marker, 1))
    /\ clock = 1
    /\ prep = Null
    /\ RebuildIdle
    /\ SyncIdle
    /\ DeviceIdle /\ ClassifyIdle /\ DebugIdle

SpecPrepare == InitPrepare /\ [][PrepareNext]_vars

(***************************************************************************)
(* SyncBatch                                                               *)
(***************************************************************************)
\* A batch as injector.resolve(SyncBatch, {done}) creates it.  `doneCalls`
\* counts the calls of its done callback; `syncing` is the batch its done
\* callback is syncing (0 when none); `failures` counts the syncs of its
\* files that threw, `warnings` holds what was logged for them and `thrown`
\* the error its done callback let through ("" when none).
NewSyncBatch ==
    [ files |-> {}, timer |-> FALSE, inProgress |-> FALSE, doneCalls |-> 0, syncing |-> 0,
      failures |-> 0, warnings |-> <<>>, thrown |-> "" ]

\* True from the first addFile until the done callback has completed.
syncPending(b) == b.files # {} \/ b.inProgress

\* addFile: the path joins the accumulated set (a path added twice is held
\* once); the timer is armed unless a flush is pending.
addFile(b, filePath) ==
    [b EXCEPT !.files = @ \cup {filePath}, !.timer = ~b.inProgress]

\* The batch is reset once its files have been synced.
resetBatch(b) == [b EXCEPT !.files = {}]

(***************************************************************************)
(* PlatformLiveSyncServiceBase: partialSync and batchSync                  *)
(***************************************************************************)
nmMainTs == <<"main", "ts">>

pathMain == <<nmApp, nmMainJs>>
pathPage == <<nmApp, nmViews, nmPageJs>>
pathTs == <<nmApp, nmMainTs>>
pathIcon == <<nmApp, nmAppResources, nmIconPng>>

\* The paths the watcher reports.
SyncPaths == { pathMain, pathPage, pathTs, pathIcon }

\* The contents a watched file may have, by their hash; "" is the hash
\* partialSync takes for a path that is not a file.
Hashes == { "", "h1", "h2" }

\* The check for App_Resources, were it never to match.
inAppResources_Never(filePath) == FALSE

\* filePath.indexOf(APP_RESOURCES_FOLDER_NAME) !== -1
inAppResources(filePath) ==
    \E i \in DOMAIN filePath : \E j \in DOMAIN filePath[i] : filePath[i][j] = "App_Resources"

\* liveSyncData.excludedProjectDirsAndFiles, by the watched paths its
\* patterns match.
isFileExcluded(filePath) == filePath \in { pathTs }

\* fileHash === this.fileHashes[filePath]
hashUnchanged_Never(fileHash, hashes, filePath) == FALSE

hashUnchanged(fileHash, hashes, filePath) ==
    filePath \in DOMAIN hashes /\ hashes[filePath] = fileHash

\* !platformBatch || !platformBatch.syncPending, were it always true
needsNewBatch_Always(batches) == TRUE

\* !platformBatch || !platformBatch.syncPending
needsNewBatch(batches) ==
    batches = <<>> \/ ~syncPending(batches[Len(batches)])

batchSync(batches, filePath) ==
    LET created == IF needsNewBatch(batches) THEN Append(batches, NewSyncBatch) ELSE batches
    IN  [created EXCEPT ![Len(created)] = addFile(@, filePath)]

MaxEvents == 3

Events == { "add", "change", "unlink" }

\* The watcher reports an event for a path.
PartialSync(event, filePath) ==
    /\ lastEvent.n < MaxEvents
    /\ LET fileHash == content[filePath]
           recorded == (filePath :> fileHash) @@ fileHashes
       IN  /\ lastEvent' = [ n |-> lastEvent.n + 1, event |-> event, path |-> filePath,
                             hash |-> fileHash, prev |-> seen[filePath] ]
           /\ seen' = [seen EXCEPT ![filePath] = IF event = "unlink" THEN "unlinked" ELSE fileHash]
           /\ IF inAppResources(filePath) \/ hashUnchanged(fileHash, fileHashes, filePath)
              THEN UNCHANGED <<fileHashes, batch, added, removed>>
              ELSE IF isFileExcluded(filePath)
              THEN fileHashes' = recorded /\ UNCHANGED <<batch, added, removed>>
              ELSE IF event \in {"add", "change"}
              THEN /\ fileHashes' = recorded
                   /\ batch' = batchSync(batch, filePath)
                   /\ added' = added \cup { [path |-> filePath, batch |-> Len(batch')] }
                   /\ UNCHANGED removed
              ELSE /\ fileHashes' = Without(recorded, filePath)
                   /\ removed' = Append(removed, filePath)
                   /\ UNCHANGED <<batch, added>>
    /\ UNCHANGED <<fs, clock, platform, rvars, pvars, dvars, content, syncs>>

\* The timer of a batch expires: its done callback is called, and has the
\* batch of the platform sync its files.
TimerExpires(i) ==
    /\ batch[i].timer
    /\ LET current == Len(batch)
           filesToSync == batch[current].files
       IN  /\ batch' = [batch EXCEPT ![i].timer = FALSE,
                                     ![i].inProgress = TRUE,
                                     ![i].doneCalls = @ + 1,
                                     ![i].syncing = IF filesToSync # {} THEN current ELSE 0]
           /\ syncs' = IF filesToSync # {}
                       THEN Append(syncs, [batch |-> current, files |-> filesToSync])
                       ELSE syncs
    /\ UNCHANGED <<fs, clock, platform, rvars, pvars, dvars, fileHashes, content, added, removed,
                   seen, lastEvent>>

MaxFailures == 1

\* The errors a step of the sync may throw, by their message.
SyncErrors == { "transfer failed" }

\* The try/catch of the done callback, were the error thrown again
catchSyncError_Rethrow(err) ==
    [ warnings |-> <<>>, thrown |-> err ]

\* The try/catch of the done callback: the error is logged as a warning.
catchSyncError(err) ==
    [ warnings |-> << [text |-> "Unable to sync files. Error is:", message |-> err] >>,
      thrown |-> "" ]

\* The sync is over: the batch synced is reset and the done callback returns.
FlushCompletes(i) ==
    /\ batch[i].inProgress
    /\ LET synced == batch[i].syncing
           reset == IF synced # 0 THEN [batch EXCEPT ![synced] = resetBatch(@)] ELSE batch
       IN  batch' = [reset EXCEPT ![i].inProgress = FALSE, ![i].syncing = 0]
    /\ UNCHANGED <<fs, clock, platform, rvars, pvars, dvars, fileHashes, content, syncs, added,
                   removed, seen, lastEvent>>

Failures == LET RECURSIVE sum(_)
                sum(k) == IF k = 0 THEN 0 ELSE batch[k].failures + sum(k - 1)
            IN  sum(Len(batch))

\* A step of the sync throws: the error leaves the sync action and is caught
\* in the done callback, which returns; the batch is reset.
FlushFails(i, err) ==
    /\ batch[i].inProgress
    /\ batch[i].syncing # 0
    /\ Failures < MaxFailures
    /\ LET synced == batch[i].syncing
           caught == catchSyncError(err)
           reset == [batch EXCEPT ![synced] = resetBatch(@)]
           logged == [reset EXCEPT ![synced].failures = @ + 1,
                                   ![synced].warnings = @ \o caught.warnings,
                                   ![synced].thrown = caught.thrown]
       IN  batch' = [logged EXCEPT ![i].inProgress = FALSE, ![i].syncing = 0]
    /\ UNCHANGED <<fs, clock, platform, rvars, pvars, dvars, fileHashes, content, syncs, added,
                   removed, seen, lastEvent>>

\* A watched file is saved with other contents, created or deleted.
Edit(filePath, hash) ==
    /\ content[filePath] # hash
    /\ content' = [content EXCEPT ![filePath] = hash]
    /\ UNCHANGED <<fs, clock, platform, rvars, pvars, dvars, fileHashes, batch, syncs, added,
                   removed, seen, lastEvent>>

SyncNext ==
    \/ \E event \in Events, filePath \in SyncPaths : PartialSync(event, filePath)
    \/ \E i \in DOMAIN batch : TimerExpires(i)
    \/ \E i \in DOMAIN batch : FlushCompletes(i)
    \/ \E filePath \in { pathMain, pathPage }, hash \in Hashes : Edit(filePath, hash)

\* The watcher has just been started: nothing hashed, no batch.
InitSync ==
    /\ fs = <<>> /\ clock = 0 /\ platform \in Platforms
    /\ RebuildIdle
    /\ PrepareIdle
    /\ DeviceIdle /\ ClassifyIdle /\ DebugIdle
    /\ fileHashes = <<>>
    /\ content = [ p \in SyncPaths |-> "h1" ]
    /\ batch = <<>> /\ syncs = <<>> /\ added = {} /\ removed = <<>>
    /\ seen = [ p \in SyncPaths |-> "never" ]
    /\ lastEvent = [ n |-> 0, event |-> "none", path |-> <<>>, hash |-> "", prev |-> "never" ]

SpecSync == InitSync /\ [][SyncNext]_vars

\* The watcher over the two script files, with syncs that may throw.
FlushPaths == { pathMain, pathPage }

FlushNext ==
    \/ \E event \in Events, filePath \in FlushPaths : PartialSync(event, filePath)
    \/ \E i \in DOMAIN batch : TimerExpires(i)
    \/ \E i \in DOMAIN batch : FlushCompletes(i)
    \/ \E i \in DOMAIN batch, err \in SyncErrors : FlushFails(i, err)
    \/ \E filePath \in FlushPaths, hash \in Hashes : Edit(filePath, hash)

SpecFlush == InitSync /\ [][FlushNext]_vars

(***************************************************************************)
(* PlatformLiveSyncServiceBase: the sync of one device                     *)
(* (fullSync, getSyncAction, deploy, refreshApplication) and the iOS       *)
(* device service (IOSLiveSyncService).  A sync is the list of the steps   *)
(* its code runs, in order; each step that is waited for may throw, which  *)
(* ends the sync.                                                          *)
(***************************************************************************)
pathXml == <<nmApp, nmPageXml>>
pathPng == <<nmApp, nmIconPng>>
pathManifest == <<nmPackageJson>>
pathNative == <<nmNodeModules, nmFoo, nmPlatforms, nmIos, nmLibA>>
pathAndroidJs == <<nmApp, nmXAndroidJs>>

\* One step of a sync: what is called, the wire method of a message, the
\* files it is called with and its flag (isFullSync of a transfer,
\* forceExecuteFullSync of a refresh).
St(step, method, files, flag) ==
    [ step |-> step, method |-> method, files |-> files, flag |-> flag ]

Do(step) == St(step, "", {}, FALSE)

\* device => device.deviceInfo.platform.toLowerCase() === platform.toLowerCase()
\* ($options.device is not set).
getCanExecuteAction(plat, dev) == dev.platform = plat

\* shouldBuildWhenLivesyncing, were the stamp of the device not read
shouldBuildWhenLivesyncing_NoStamp(f, dev, buildTime, livesyncTime, requireBuild) ==
    getLatestPrepareInfo(f, dev.platform).time # buildTime /\ requireBuild

\* The environment shouldBuildWhenLivesyncing reads: the latest build time,
\* the stamp of the device and
\* getLatestChangesInfo().changesRequireBuild.
shouldBuildWhenLivesyncing(f, dev, buildTime, livesyncTime, requireBuild) ==
    LET prepareInfo == getLatestPrepareInfo(f, dev.platform)
    IN  IF prepareInfo.time # buildTime
        THEN IF livesyncTime.exists
             THEN prepareInfo.time # livesyncTime.time /\ requireBuild
             ELSE requireBuild
        ELSE FALSE

\* saveLivesyncInfo: the time of the latest prepare, as written to the
\* .nslivesyncinfo of the device.
saveLivesyncInfo(f, dev) == Stamp(getLatestPrepareInfo(f, dev.platform).time)

\* The loop of changeRequiresDeploy over the files of the batch.
changeRequiresDeploy_Never(f, filesToSync) == FALSE

changeRequiresDeploy(f, filesToSync) ==
    \E file \in filesToSync : fileChangeRequiresBuild(f, file) = "true"

\* deploy(device): the optional build, the deployment and reinstallation of
\* the package, and the stamp.
deploy(f, dev, env) ==
    (IF shouldBuildWhenLivesyncing(f, dev, env.buildTime, env.livesyncTime, env.requireBuild)
     THEN <<Do("build")>> ELSE <<>>)
        \o <<Do("deploy"), Do("reinstall"), Do("stamp")>>

\* projectFilesProvider.mapFilePath: the platform infix of the file name is
\* dropped.
mapFilePath(file, plat) == [file EXCEPT ![Len(file)] = ReplaceInName(@, plat)]

\* createLocalToDevicePaths: the files that are not excluded.
createLocalToDevicePaths(mappedFiles) == { file \in mappedFiles : ~isFileExcluded(file) }

\* transferFiles, were isFullSync not looked at.
transferFiles_AnySync(dev, localToDevicePaths, isFullSync) ==
    LET canTransferDirectory ==
            dev.platform = "android" \/ (dev.platform = "ios" /\ dev.isEmulator)
    IN  St("transfer", IF canTransferDirectory THEN "transferDirectory" ELSE "transferFiles",
           localToDevicePaths, isFullSync)

\* transferFiles: device.fileSystem.transferDirectory or the per-file
\* transfer of the provider.
transferFiles(dev, localToDevicePaths, isFullSync) ==
    LET canTransferDirectory ==
            isFullSync /\ (dev.platform = "android" \/ (dev.platform = "ios" /\ dev.isEmulator))
    IN  St("transfer", IF canTransferDirectory THEN "transferDirectory" ELSE "transferFiles",
           localToDevicePaths, isFullSync)

\* this.refreshApplication(deviceAppData, localToDevicePaths): the refresh
\* of the device service is forced when there is no file list (forced is
\* localToDevicePaths === null).
refreshApplication(localToDevicePaths, forced) == St("refresh", "", localToDevicePaths, forced)

\* The action getSyncAction returns, for one device.
getSyncAction(f, dev, env, filesToSync, fileSyncAction, afterFileSyncAction) ==
    IF changeRequiresDeploy(f, filesToSync)
    THEN deploy(f, dev, env) \o <<refreshApplication({}, TRUE)>>
    ELSE LET mappedFiles == { mapFilePath(file, "ios") : file \in filesToSync }
             localToDevicePaths == createLocalToDevicePaths(mappedFiles)
         IN  <<IF fileSyncAction = "transferFiles"
               THEN transferFiles(dev, localToDevicePaths, FALSE)
               ELSE St("removeFiles", "", localToDevicePaths, FALSE)>>
                 \o (IF ~afterFileSyncAction
                     THEN <<refreshApplication(localToDevicePaths, FALSE)>> ELSE <<>>)
                 \o <<Do("finish")>>
                 \o (IF afterFileSyncAction
                     THEN <<St("after", "", localToDevicePaths, FALSE)>> ELSE <<>>)
                 \o <<Do("stamp")>>

\* The action of fullSync, for one device; every file of the project is
\* transferred.
fullSync(f, dev, env, projectFiles, postAction) ==
    LET localToDevicePaths == createLocalToDevicePaths(projectFiles)
    IN  deploy(f, dev, env)
            \o <<transferFiles(dev, localToDevicePaths, TRUE)>>
            \o (IF postAction
                THEN <<Do("finish"), St("after", "", localToDevicePaths, FALSE)>>
                ELSE <<refreshApplication(localToDevicePaths, FALSE), Do("finish")>>)

\* ---- IOSLiveSyncService ----
\* _.endsWith(getDevicePath(), ".js")
isScript(file) == file[Len(file)][Len(file[Len(file)])] = "js"

\* liveSyncProvider.canExecuteFastSync: the extension is on the fast-sync
\* allowlist.
canExecuteFastSync(file) == file[Len(file)][Len(file[Len(file)])] \in { "css", "xml" }

\* sendMessage of one message
Send(method, files) == St("send", method, files, FALSE)

\* refreshApplication, were the scripts sent to the debugger with liveEdit
\* off.
iosRefreshApplication_LiveEditUnread(localToDevicePaths, forceExecuteFullSync, liveEdit) ==
    LET scriptFiles == { file \in localToDevicePaths : isScript(file) }
        otherFiles == localToDevicePaths \ scriptFiles
        shouldRestart == \E file \in otherFiles : ~canExecuteFastSync(file)
    IN  IF forceExecuteFullSync \/ shouldRestart THEN <<Do("restart")>>
        ELSE <<St("setupSocket", "", {}, FALSE),
               St("liveEdit", "", scriptFiles, FALSE),
               St("reloadPage", "", otherFiles, FALSE)>>

\* IOSLiveSyncService.refreshApplication, up to its call of
\* setupSocketIfNeeded.
iosRefreshApplication(localToDevicePaths, forceExecuteFullSync, liveEdit) ==
    LET scriptFiles == { file \in localToDevicePaths : isScript(file) }
        otherFiles == localToDevicePaths \ scriptFiles
        shouldRestart == \E file \in otherFiles : ~canExecuteFastSync(file)
    IN  IF forceExecuteFullSync THEN <<Do("restart")>>
        ELSE IF shouldRestart THEN <<Do("restart")>>
        ELSE IF ~liveEdit /\ scriptFiles # {} THEN <<Do("restart")>>
        ELSE <<St("setupSocket", "", {}, FALSE),
               St("liveEdit", "", scriptFiles, FALSE),
               St("reloadPage", "", otherFiles, FALSE)>>

\* liveEdit: one Debugger.setScriptSource per script file.
liveEditMessages(scriptFiles) ==
    LET order == SortPaths(scriptFiles)
    IN  [ i \in 1..Len(order) |-> Send("Debugger.setScriptSource", {order[i]}) ]

\* reloadPage: one Page.reload when it is given files.
reloadPage(localToDevicePaths) ==
    IF localToDevicePaths # {} THEN <<Send("Page.reload", {})>> ELSE <<>>

\* The refresh of the device service of the platform.
deviceRefreshApplication(dev, localToDevicePaths, forced, liveEdit) ==
    IF dev.platform = "ios"
    THEN iosRefreshApplication(localToDevicePaths, forced, liveEdit)
    ELSE <<Do("androidRefresh")>>

\* ---- one device being synced ----
MaxSyncs == 2

\* The files transferred by a full sync.
ProjectFiles == { pathMain, pathXml }

\* The batches the watcher may flush.
FlushSets ==
    { {pathMain}, {pathMain, pathPage}, {pathMain, pathXml}, {pathXml}, {pathMain, pathPng},
      {pathManifest}, {pathMain, pathNative}, {pathAndroidJs} }

\* The arguments of shouldBuildWhenLivesyncing for the sync that starts.
SyncEnv == [ buildTime |-> devenv.buildTime, livesyncTime |-> stamp,
             requireBuild |-> devenv.requireBuild ]

\* devicesService.execute(action, canExecute) reaches the device.
StartSync(kind, filesToSync, after, steps) ==
    /\ dsync.status # "running"
    /\ dsync.fiber = <<>>
    /\ dsync.n < MaxSyncs
    /\ getCanExecuteAction(platform, device)
    /\ dsync' = [ n |-> dsync.n + 1, kind |-> kind, status |-> "running", program |-> steps,
                  fiber |-> <<>>, log |-> <<>>, files |-> filesToSync, after |-> after,
                  thrown |-> "" ]
    /\ wire' = <<>>
    /\ UNCHANGED <<fs, clock, platform, rvars, pvars, svars, device, devenv, stamp, socket, asked, dbg>>

\* fullSync(postAction)
StartFullSync(postAction) ==
    StartSync("full", ProjectFiles, postAction,
              fullSync(fs, device, SyncEnv, ProjectFiles, postAction))

\* The sync action of a flushed batch (batchSync)
StartFlush(filesToSync, afterFileSyncAction) ==
    StartSync("flush", filesToSync, afterFileSyncAction,
              getSyncAction(fs, device, SyncEnv, filesToSync, "transferFiles",
                            afterFileSyncAction))

\* syncRemovedFile(filePath, afterFileSyncAction)
StartRemove(filePath, afterFileSyncAction) ==
    StartSync("remove", {filePath}, afterFileSyncAction,
              getSyncAction(fs, device, SyncEnv, {filePath}, "removeFiles",
                            afterFileSyncAction))

\* The ways a step can end: it returns, it throws, the connection of
\* setupSocketIfNeeded times out, the write of sendMessage fails.
StepOutcomes(s) ==
    CASE s.step \in { "build", "deploy", "reinstall", "transfer", "removeFiles", "after",
                      "restart", "androidRefresh" } -> { "ok", "throw" }
      [] s.step = "setupSocket" -> IF socket THEN { "ok" } ELSE { "ok", "timeout" }
      [] s.step = "send" -> IF socket THEN { "ok", "error" } ELSE { "error" }
      [] OTHER -> { "ok" }

RECURSIVE skipTo(_, _)

\* The steps from the first one named `step` on.
skipTo(steps, step) ==
    IF steps = <<>> \/ Head(steps).step = step THEN steps ELSE skipTo(Tail(steps), step)

\* What is left to run once step s has ended with the outcome.
continuation(s, outcome, rest) ==
    CASE s.step = "refresh" ->
             deviceRefreshApplication(device, s.files, s.flag, devenv.liveEdit)
                 \o <<Do("refreshed")>> \o rest
      [] s.step = "setupSocket" /\ outcome = "ok" ->
             IF socket THEN rest ELSE <<Send("Debugger.enable", {})>> \o rest
      [] s.step = "setupSocket" /\ outcome = "timeout" ->
             \* the simulator: false is returned; the device: the attach
             \* request throws
             IF device.isEmulator THEN skipTo(rest, "refreshed") ELSE <<>>
      [] s.step = "reloadPage" -> reloadPage(s.files) \o rest
      [] outcome = "throw" -> <<>>
      [] OTHER -> rest

throws(s, outcome) ==
    outcome = "throw" \/ (s.step = "setupSocket" /\ outcome = "timeout" /\ ~device.isEmulator)

\* sendMessage, were the socket kept after an error.
sendMessage_KeepsSocket(s, outcome) ==
    /\ wire' = IF outcome = "ok" THEN Append(wire, [method |-> s.method, files |-> s.files])
               ELSE wire
    /\ socket' = socket

\* sendMessage: the message is written, or the error is caught and the
\* socket destroyed.
sendMessage(s, outcome) ==
    /\ wire' = IF outcome = "ok" THEN Append(wire, [method |-> s.method, files |-> s.files])
               ELSE wire
    /\ socket' = IF outcome = "ok" THEN socket ELSE FALSE

\* The next step of the running sync.
DeviceStep(outcome) ==
    /\ dsync.status = "running"
    /\ dsync.program # <<>>
    /\ LET s == Head(dsync.program)
           left == continuation(s, outcome, Tail(dsync.program))
       IN  /\ outcome \in StepOutcomes(s)
           /\ dsync' = [dsync EXCEPT
                  !.program = left,
                  !.log = IF throws(s, outcome) THEN @ ELSE Append(@, [s EXCEPT !.flag =
                              IF s.step \in {"send", "setupSocket"} THEN outcome = "ok" ELSE @]),
                  !.fiber = IF s.step = "liveEdit" THEN liveEditMessages(s.files) ELSE @,
                  !.thrown = IF throws(s, outcome) THEN s.step ELSE @,
                  !.status = IF throws(s, outcome) THEN "failed"
                             ELSE IF left = <<>> THEN "done" ELSE "running"]
           /\ stamp' = IF s.step = "stamp" THEN saveLivesyncInfo(fs, device) ELSE stamp
           /\ IF s.step = "send" THEN sendMessage(s, outcome)
              ELSE /\ wire' = wire
                   /\ socket' = IF s.step = "setupSocket" /\ outcome = "ok" THEN TRUE ELSE socket
    /\ UNCHANGED <<fs, clock, platform, rvars, pvars, svars, device, devenv, asked, dbg>>

\* The next message of liveEdit, which refreshApplication does not wait for.
LiveEditStep(outcome) ==
    /\ dsync.fiber # <<>>
    /\ outcome \in StepOutcomes(Head(dsync.fiber))
    /\ sendMessage(Head(dsync.fiber), outcome)
    /\ dsync' = [dsync EXCEPT !.fiber = Tail(@)]
    /\ UNCHANGED <<fs, clock, platform, rvars, pvars, svars, device, devenv, stamp, asked, dbg>>

DeviceNext ==
    \/ \E postAction \in BOOLEAN : StartFullSync(postAction)
    \/ \E filesToSync \in FlushSets, after \in BOOLEAN : StartFlush(filesToSync, after)
    \/ \E filePath \in { pathMain, pathXml }, after \in BOOLEAN : StartRemove(filePath, after)
    \/ \E outcome \in { "ok", "throw", "timeout", "error" } : DeviceStep(outcome)
    \/ \E outcome \in { "ok", "error" } : LiveEditStep(outcome)

\* A prepared project with a plugin foo, a device of either platform, with
\* or without a stamp, and a latest build that is or is not the one of the
\* last prepare.
InitDevice ==
    /\ platform \in Platforms
    /\ fs = writeJson(WithDirs(PrepareFiles(platform, [id |-> <<>>], 1)), buildInfoFile(platform),
                      [time |-> 1, bundle |-> FALSE, release |-> FALSE], 1)
    /\ clock = 1
    /\ RebuildIdle /\ PrepareIdle /\ SyncIdle /\ ClassifyIdle /\ DebugIdle
    /\ device \in [ platform : Platforms, isEmulator : BOOLEAN ]
    /\ devenv \in [ liveEdit : BOOLEAN, buildTime : {0, 1}, requireBuild : BOOLEAN ]
    /\ stamp \in { NoStamp, Stamp(0), Stamp(1) }
    /\ socket = FALSE /\ wire = <<>>
    /\ dsync = NoSync

SpecDevice == InitDevice /\ [][DeviceNext]_vars

(***************************************************************************)
(* fileChangeRequiresBuild, asked about the paths a watcher may report     *)
(***************************************************************************)
\* The packages a project may have installed: foo, bar nested in foo, the
\* core modules and the widgets of the core modules.
ClassifyPackages ==
    { <<nmNodeModules, nmFoo>>, <<nmNodeModules, nmFoo, nmNodeModules, nmBar>>,
      <<nmNodeModules, nmTnsCoreModules>>, <<nmNodeModules, nmTnsCoreModulesWidgets>> }

\* The paths fileChangeRequiresBuild is asked about.
ClassifyPaths ==
    { <<nmPackageJson>>, <<nmApp, nmMainJs>>, <<nmApp, nmPackageJson>>,
      <<nmPlatforms, nmIos, nmLibA>>, <<nmNodeModules>>, <<nmNodeModulesBackup, nmXJs>> }
    \cup { Append(p, nmIndexJs) : p \in ClassifyPackages }
    \cup { Append(p, nmPackageJson) : p \in ClassifyPackages }
    \cup { p \o <<nmPlatforms, nmIos, nmLibA>> : p \in ClassifyPackages }
    \cup { p \o <<nmPlatforms>> : p \in ClassifyPackages }

\* The manifests of the installed packages; those of `plugins` carry the
\* framework marker.
ClassifyFiles(plugins) ==
    (<<nmPackageJson>> :> JsonEntry(1, Manifest(Version(1), <<nmFoo>>, [id |-> <<"org", "proj">>])))
        @@ [ file \in { Append(p, nmPackageJson) : p \in ClassifyPackages } |->
                 JsonEntry(1, Manifest(Version(1), <<>>,
                                       IF Parent(file) \in plugins THEN [id |-> <<>>] ELSE Null)) ]

\* The watcher, or a caller, asks whether a change of the file requires a
\* build.
Classify(file) ==
    /\ asked' = [ file |-> file, result |-> fileChangeRequiresBuild(fs, file) ]
    /\ UNCHANGED <<fs, clock, platform, rvars, pvars, svars, device, devenv, stamp, socket,
                   wire, dsync, dbg>>

ClassifyNext == \E file \in ClassifyPaths : Classify(file)

InitClassify ==
    /\ platform \in Platforms
    /\ \E plugins \in SUBSET ClassifyPackages : fs = WithDirs(ClassifyFiles(plugins))
    /\ clock = 1
    /\ RebuildIdle /\ PrepareIdle /\ SyncIdle /\ DeviceIdle /\ DebugIdle
    /\ asked = Null

SpecClassify == InitClassify /\ [][ClassifyNext]_vars

(***************************************************************************)
(* IOSDebugService                                                         *)
(***************************************************************************)
\* The fields of IDebugOptions the service reads.
DebugOptions == [ debugBrk : BOOLEAN, start : BOOLEAN, chrome : BOOLEAN, client : BOOLEAN,
                  emulator : BOOLEAN ]

NoOptions ==
    [ debugBrk |-> FALSE, start |-> FALSE, chrome |-> FALSE, client |-> FALSE,
      emulator |-> FALSE ]

\* A value handed to a parameter: an options object, a boolean, or
\* undefined when the argument is left out.
Obj(o) == [ type |-> "object", bool |-> FALSE, fields |-> o ]

Bool(b) == [ type |-> "boolean", bool |-> b, fields |-> NoOptions ]

Undefined == [ type |-> "undefined", bool |-> FALSE, fields |-> NoOptions ]

\* if (value.field): a field read from a boolean or from undefined is not
\* truthy.
member(value, field) == value.type = "object" /\ value.fields[field]

\* The devices $devicesService may know.
DebugDevices == { "phone", "simulator" }

\* No debug session.
NoSession ==
    [ pc |-> "idle", entry |-> "none", options |-> NoOptions, devices |-> {},
      target |-> "none", shouldBreak |-> Undefined, debugOptions |-> Undefined,
      hasDevice |-> FALSE, afterWire |-> "done", started |-> FALSE, launch |-> <<>>,
      args |-> <<>>, attach |-> 0, notified |-> FALSE, client |-> "none",
      wiredWith |-> Undefined ]

OthersUnchangedByDebug ==
    UNCHANGED <<fs, clock, platform, rvars, pvars, svars, device, devenv, stamp, socket, wire,
                dsync, asked>>

\* IOSDebugService.debug with the caller's options, the devices known, and
\* the device $devicesService.execute runs the action for.
debug(debugOptions, devices, target) ==
    /\ dbg.pc = "idle"
    /\ target \in devices \/ (devices = {} /\ target = "none")
    /\ LET emulator == debugOptions.emulator \/ devices = {"simulator"} \/ devices = {}
           options == [ debugOptions EXCEPT !.emulator = emulator ]
           call == [ dbg EXCEPT !.entry = "debug", !.options = options, !.devices = devices,
                                !.target = target, !.debugOptions = Obj(options) ]
       IN  dbg' =
             IF debugOptions.debugBrk /\ debugOptions.start
             THEN [ dbg EXCEPT !.pc = "failed", !.entry = "debug", !.options = debugOptions,
                               !.devices = devices, !.target = target ]
             ELSE IF emulator
             THEN IF options.debugBrk
                  THEN [ call EXCEPT !.pc = "emulatorDebugBrk", !.shouldBreak = Bool(TRUE) ]
                  ELSE IF options.start
                  THEN [ call EXCEPT !.pc = "emulatorStart" ]
                  ELSE [ call EXCEPT !.pc = "emulatorDebugBrk", !.shouldBreak = Bool(FALSE) ]
             ELSE IF options.debugBrk
                  THEN [ call EXCEPT !.pc = "deviceDebugBrk", !.shouldBreak = Bool(TRUE) ]
                  ELSE IF options.start
                  THEN [ call EXCEPT !.pc = "deviceStart" ]
                  ELSE [ call EXCEPT !.pc = "deviceDebugBrk", !.shouldBreak = Bool(FALSE) ]
    /\ OthersUnchangedByDebug

\* IOSDebugService.debugStart: the device is asked to launch the
\* application under the debugger, without a break.
debugStart(debugOptions, devices, target) ==
    /\ dbg.pc = "idle"
    /\ target \in devices
    /\ LET call == [ dbg EXCEPT !.entry = "debugStart", !.options = debugOptions,
                                !.devices = devices, !.target = target,
                                !.debugOptions = Obj(debugOptions) ]
       IN  dbg' = IF target = "simulator"
                  THEN [ call EXCEPT !.pc = "emulatorDebugBrk", !.shouldBreak = Bool(FALSE) ]
                  ELSE [ call EXCEPT !.pc = "debugBrkCore", !.shouldBreak = Undefined ]
    /\ OthersUnchangedByDebug

\* emulatorDebugBrk(projectData, shouldBreak, debugOptions): the application
\* is run on the simulator with the argument that tells it to break or not.
emulatorDebugBrk ==
    /\ dbg.pc = "emulatorDebugBrk"
    /\ LET args == IF dbg.shouldBreak = Bool(TRUE) THEN "--nativescript-debug-brk"
                                                    ELSE "--nativescript-debug-start"
       IN  dbg' = [ dbg EXCEPT !.pc = "wireDebuggerClient", !.args = Append(@, args),
                               !.hasDevice = FALSE, !.afterWire = "done" ]
    /\ OthersUnchangedByDebug

\* emulatorStart(projectData, debugOptions): the client is wired, then the
\* attach request is posted.
emulatorStart ==
    /\ dbg.pc = "emulatorStart"
    /\ dbg' = [ dbg EXCEPT !.pc = "wireDebuggerClient", !.hasDevice = FALSE,
                           !.afterWire = "postDarwinNotification" ]
    /\ OthersUnchangedByDebug

postDarwinNotification ==
    /\ dbg.pc = "postDarwinNotification"
    /\ dbg' = [ dbg EXCEPT !.pc = "done", !.notified = TRUE ]
    /\ OthersUnchangedByDebug

\* deviceDebugBrk(projectData, shouldBreak, debugOptions): on a device the
\* application is started and debugBrkCore is called with
\* (device, projectData, shouldBreak): shouldBreak lands in the parameter
\* debugOptions of debugBrkCore and its parameter shouldBreak is left out.
deviceDebugBrk ==
    /\ dbg.pc = "deviceDebugBrk"
    /\ dbg' = IF dbg.target = "simulator"
              THEN [ dbg EXCEPT !.pc = "emulatorDebugBrk" ]
              ELSE [ dbg EXCEPT !.pc = "debugBrkCore", !.started = TRUE,
                                !.debugOptions = dbg.shouldBreak,
                                !.shouldBreak = Undefined ]
    /\ OthersUnchangedByDebug

\* debugBrkCore(device, projectData, debugOptions, shouldBreak?): the
\* launch request carries shouldBreak.
debugBrkCore ==
    /\ dbg.pc = "debugBrkCore"
    /\ dbg' = [ dbg EXCEPT !.pc = "wireDebuggerClient", !.launch = Append(@, dbg.shouldBreak),
                           !.hasDevice = TRUE, !.afterWire = "done" ]
    /\ OthersUnchangedByDebug

deviceStart ==
    /\ dbg.pc = "deviceStart"
    /\ dbg' = IF dbg.target = "simulator"
              THEN [ dbg EXCEPT !.pc = "emulatorStart" ]
              ELSE [ dbg EXCEPT !.pc = "deviceStartCore" ]
    /\ OthersUnchangedByDebug

deviceStartCore ==
    /\ dbg.pc = "deviceStartCore"
    /\ dbg' = [ dbg EXCEPT !.pc = "wireDebuggerClient", !.attach = @ + 1,
                           !.hasDevice = TRUE, !.afterWire = "done" ]
    /\ OthersUnchangedByDebug

\* wireDebuggerClient(projectData, debugOptions, device?) with
\* openAppInspector: the Chrome DevTools proxy, the inspector, or no client.
wireDebuggerClient ==
    /\ dbg.pc = "wireDebuggerClient"
    /\ dbg' = [ dbg EXCEPT !.pc = dbg.afterWire,
                           !.wiredWith = dbg.debugOptions,
                           !.client = IF member(dbg.debugOptions, "chrome") THEN "chrome"
                                      ELSE IF member(dbg.debugOptions, "client")
                                           THEN "inspector" ELSE "suppressed" ]
    /\ OthersUnchangedByDebug

\* debugStop: the proxy and the sockets are closed; the service may be
\* asked to debug again.
debugStop ==
    /\ dbg.pc \in {"done", "failed"}
    /\ dbg' = NoSession
    /\ OthersUnchangedByDebug

DebugNext ==
    \/ \E debugOptions \in DebugOptions, devices \in SUBSET DebugDevices,
          target \in DebugDevices \cup {"none"} : debug(debugOptions, devices, target)
    \/ \E debugOptions \in DebugOptions, devices \in SUBSET DebugDevices,
          target \in DebugDevices : debugStart(debugOptions, devices, target)
    \/ emulatorDebugBrk
    \/ emulatorStart
    \/ postDarwinNotification
    \/ deviceDebugBrk
    \/ debugBrkCore
    \/ deviceStart
    \/ deviceStartCore
    \/ wireDebuggerClient
    \/ debugStop

InitDebug ==
    /\ fs = <<>> /\ clock = 0 /\ platform = "ios"
    /\ RebuildIdle /\ PrepareIdle /\ SyncIdle /\ DeviceIdle /\ ClassifyIdle
    /\ dbg = NoSession

SpecDebug == InitDebug /\ [][DebugNext]_vars

(***************************************************************************)
(* Properties of the sync of a device                                      *)
(***************************************************************************)
\* The places of the log of the current sync where the step was run.
At(step) == { i \in DOMAIN dsync.log : dsync.log[i].step = step }

\* Every run of step `a` comes after some run of step `b`.
Follows(a, b) == \A i \in At(a) : \E j \in At(b) : j < i

\* Some file of the current sync satisfies fileChangeRequiresBuild.
RequiresBuild == \E file \in dsync.files : fileChangeRequiresBuild(fs, file) = "true"

\* C12: on every path of a sync of a device, .nslivesyncinfo is written only
\* after refreshApplication has returned in that sync.
C12_StampAfterRefresh == Follows("stamp", "refreshed")

\* C13: in a flush none of whose files requires a build the steps run in the
\* order transfer, refresh, stamp, afterFileSyncAction: the refresh follows
\* the transfer, the stamp follows the refresh, afterFileSyncAction follows
\* the stamp, and no such flush completes without a refresh.
C13_HotSyncOrder ==
    (dsync.kind = "flush" /\ ~RequiresBuild) =>
        /\ Follows("refresh", "transfer")
        /\ Follows("stamp", "refreshed")
        /\ Follows("after", "stamp")
        /\ dsync.status = "done" => At("refreshed") # {}

\* C14: a flush with a file that requires a build deploys and reinstalls
\* (after the optional build), then refreshes with no file list, which
\* restarts the application on iOS, and transfers no file; a flush without
\* such a file neither builds, deploys nor reinstalls.
C14_DeployIffRequiresBuild ==
    dsync.kind = "flush" =>
        IF RequiresBuild
        THEN /\ At("transfer") = {}
             /\ \A i \in At("build") : \A j \in At("deploy") : i < j
             /\ Follows("reinstall", "deploy")
             /\ Follows("refresh", "reinstall")
             /\ \A i \in At("refresh") : dsync.log[i].flag
             /\ (device.platform = "ios" /\ At("refreshed") # {}) => At("restart") # {}
             /\ dsync.status = "done" =>
                    At("deploy") # {} /\ At("reinstall") # {} /\ At("refreshed") # {}
        ELSE At("build") \cup At("deploy") \cup At("reinstall") = {}

\* A batch with a script and a native file of a plugin has been flushed to
\* an iOS device: built, deployed, reinstalled and restarted.
C14_Witness ==
    /\ dsync.kind = "flush" /\ dsync.status = "done"
    /\ dsync.files = {pathMain, pathNative}
    /\ device.platform = "ios"
    /\ At("build") # {} /\ At("reinstall") # {} /\ At("restart") # {}

\* C17: every sync of a device that completes logs the line "Successfully
\* synced application ..." exactly once, after its transfer and its refresh.
C17_SuccessLineOnce ==
    dsync.status = "done" =>
        /\ Cardinality(At("finish")) = 1
        /\ \A i \in At("finish") :
              \A j \in At("transfer") \cup At("removeFiles") \cup At("refresh") \cup At("refreshed") :
                  j < i

\* The refresh of the current sync was run on an iOS device with liveEdit,
\* not forced, for script files only, and has returned with every message
\* written.
ScriptsOnlyRefresh ==
    /\ device.platform = "ios" /\ devenv.liveEdit
    /\ At("refreshed") # {}
    /\ \E i \in At("refresh") :
          /\ ~dsync.log[i].flag
          /\ dsync.log[i].files # {}
          /\ \A file \in dsync.log[i].files : isScript(file)
    /\ dsync.fiber = <<>>
    /\ socket
    /\ \A i \in At("send") : dsync.log[i].flag

Written(method) == { i \in DOMAIN wire : wire[i].method = method }

\* C18: such a refresh writes one Debugger.setScriptSource per script file
\* and then exactly one Page.reload.
C18_ScriptsThenOneReload ==
    ScriptsOnlyRefresh =>
        /\ \A i \in At("refresh") : \A file \in dsync.log[i].files :
              Cardinality({ k \in Written("Debugger.setScriptSource") : wire[k].files = {file} }) = 1
        /\ Cardinality(Written("Page.reload")) = 1
        /\ \A k \in Written("Debugger.setScriptSource") : \A r \in Written("Page.reload") : k < r

\* C19: a refresh of an iOS device that has returned after the debugger
\* socket could not be established has restarted the application.
C19_RestartOnSocketTimeout ==
    (At("refreshed") # {} /\ \E i \in At("setupSocket") : ~dsync.log[i].flag) =>
        At("restart") # {}

\* C32: a full sync with a postAction calls it after the transfer and never
\* refreshes; a full sync without one refreshes exactly once after the
\* transfer and writes .nslivesyncinfo after the refresh.
C32_FullSyncEnds ==
    dsync.kind = "full" =>
        IF dsync.after
        THEN /\ At("refresh") = {}
             /\ Follows("after", "transfer")
             /\ dsync.status = "done" => At("after") # {}
        ELSE /\ At("after") = {}
             /\ Cardinality(At("refresh")) <= 1
             /\ Follows("refresh", "transfer")
             /\ dsync.status = "done" =>
                    /\ Cardinality(At("refresh")) = 1
                    /\ \E i \in At("stamp") : \E j \in At("refreshed") : j < i

\* The refresh of the current sync must restart the application: it is
\* forced, or a file that is no script is not eligible for the fast sync, or
\* liveEdit is off and a script is among the files.
MustRestart(refresh) ==
    \/ refresh.flag
    \/ \E file \in refresh.files : ~isScript(file) /\ ~canExecuteFastSync(file)
    \/ ~devenv.liveEdit /\ \E file \in refresh.files : isScript(file)

\* C33: a refresh of an iOS device restarts the application and writes no
\* debugger message when it is forced, or a file that is no script is not
\* eligible for the fast sync, or liveEdit is off and a script is among the
\* files; in every other case it does not restart and goes to the debugger
\* socket.  No refresh does both.
C33_RestartOrSocket ==
    (dsync.kind # "none" /\ device.platform = "ios") =>
        \A i \in At("refresh") :
            /\ At("restart") = {} \/ At("setupSocket") = {}
            /\ IF MustRestart(dsync.log[i])
               THEN /\ At("setupSocket") \cup At("liveEdit") \cup At("send") = {}
                    /\ wire = <<>> /\ dsync.fiber = <<>>
                    /\ At("refreshed") # {} => At("restart") # {}
               ELSE /\ At("restart") = {}
                    /\ At("refreshed") # {} => At("setupSocket") # {}

\* With liveEdit off a script and a page have been flushed to an iOS device:
\* the application was restarted and nothing was written to the socket.
C33_Witness ==
    /\ dsync.kind = "flush" /\ dsync.files = {pathMain, pathXml}
    /\ device.platform = "ios" /\ ~devenv.liveEdit
    /\ At("refreshed") # {} /\ At("restart") # {}
    /\ \E i \in At("refresh") : ~dsync.log[i].flag
    /\ wire = <<>>

\* C35: a transfer goes through transferDirectory of the device exactly when
\* it is the transfer of a full sync to an Android device or to an iOS
\* simulator; every other transfer, and every transfer of a flushed batch,
\* goes through the per-file transferFiles of the provider.
C35_TransferDirectoryIffFullSync ==
    \A i \in At("transfer") :
        LET t == dsync.log[i]
            direct == \/ device.platform = "android"
                      \/ device.platform = "ios" /\ device.isEmulator
        IN  /\ t.method \in {"transferDirectory", "transferFiles"}
            /\ t.method = "transferDirectory" <=> (dsync.kind = "full" /\ direct)
            /\ dsync.kind = "flush" => t.method = "transferFiles"

\* A full sync has transferred the project to an iOS simulator through
\* transferDirectory.
C35_Witness ==
    /\ dsync.kind = "full"
    /\ device.platform = "ios" /\ device.isEmulator
    /\ \E i \in At("transfer") : dsync.log[i].method = "transferDirectory"

\* The step taken is a call of sendMessage, by refreshApplication or by the
\* liveEdit it did not wait for.
SendStep ==
    \/ /\ dsync.program # <<>>
       /\ Head(dsync.program).step = "send"
       /\ dsync'.program = Tail(dsync.program)
    \/ /\ dsync.fiber # <<>>
       /\ dsync'.fiber = Tail(dsync.fiber)

\* The step taken is a call of setupSocketIfNeeded that connects.
ConnectStep ==
    /\ dsync.program # <<>>
    /\ Head(dsync.program).step = "setupSocket"
    /\ dsync'.program # dsync.program
    /\ ~socket /\ socket'

\* C36: a sendMessage that fails destroys the socket and does not end the
\* sync with an error; nothing is written while there is no socket; and a
\* setupSocketIfNeeded that finds no socket and connects sends
\* Debugger.enable before any other message.
C36_SocketDestroyedAndRenewed ==
    [][ /\ (SendStep /\ wire' = wire) => (~socket' /\ dsync'.status # "failed")
        /\ (SendStep /\ ~socket) => wire' = wire
        /\ (wire' # wire /\ dsync'.n = dsync.n) => (SendStep /\ socket /\ socket')
        /\ ConnectStep =>
              /\ dsync'.program # <<>>
              /\ Head(dsync'.program) = Send("Debugger.enable", {})
              /\ dsync'.fiber = <<>>
              /\ wire' = <<>> ]_vars

\* A write of the current refresh failed after the socket had been set up:
\* the socket is gone, a later message was not written, and the sync has
\* completed.
C36_Witness ==
    /\ dsync.status = "done"
    /\ ~socket
    /\ \E i \in At("setupSocket") : dsync.log[i].flag
    /\ \E i, j \in At("send") : i < j /\ ~dsync.log[i].flag /\ ~dsync.log[j].flag
    /\ At("refreshed") # {}

(***************************************************************************)
(* Properties of fileChangeRequiresBuild                                   *)
(***************************************************************************)
\* The manifest of the directory carries the framework marker.
IsPlugin(f, dir) ==
    /\ Exists(f, Append(dir, nmPackageJson))
    /\ f[Append(dir, nmPackageJson)].json # Null
    /\ f[Append(dir, nmPackageJson)].json.nativescript # Null

\* The file lies beneath the directory.
Beneath(file, dir) == IsProperPrefix(dir, file)

\* C20: fileChangeRequiresBuild is true exactly when the base name of the
\* file is package.json, or the file lies beneath node_modules/ but not
\* beneath node_modules/tns-core-modules/ and in the platforms/ subtree of
\* an ancestor directory whose package.json carries the framework marker.
C20_RequiresBuildExact ==
    asked # Null =>
        LET file == asked.file
        IN  (asked.result = "true") <=>
                \/ file[Len(file)] = nmPackageJson
                \/ /\ Beneath(file, <<nmNodeModules>>)
                   /\ ~Beneath(file, <<nmNodeModules, nmTnsCoreModules>>)
                   /\ \E dir \in ProperPrefixes(file) :
                         IsPlugin(fs, dir) /\ IsPrefix(Append(dir, nmPlatforms), file)

\* C15: when Project.rebuild(platform) has returned, the result it returned
\* is the projectBuildResult (changedScripts, changedNativeProject) of the
\* target of the platform asked for.
C15_ReturnsRequestedPlatform ==
    pc = "done" => returned = buildResult[platform]

\* C16: a step of a batched sync has thrown.  The error was caught in the
\* flush and logged as the warning "Unable to sync files" with its message,
\* once for each failure; nothing was thrown to the caller; the failed batch
\* was synced that one time only; it holds no files, no timer and no flush,
\* so that syncPending is false and the next file event opens a new batch.
Failed(b) == b.failures > 0

SyncsOf(k) == { j \in DOMAIN syncs : syncs[j].batch = k }

Deploys(steps) == \E i \in DOMAIN steps : steps[i].step = "deploy"

Builds(steps) == \E i \in DOMAIN steps : steps[i].step = "build"

\* C21: a sync that deploys builds first exactly when the time of the latest
\* prepare differs from the latest build time and, with a stamp of the
\* device, differs from the stamp too while the latest changes require a
\* build; without a stamp, exactly when the latest changes require a build.
C21_BuildsExactlyWhenStale ==
    [][ (dsync'.n # dsync.n /\ Deploys(dsync'.program)) =>
            LET p == getLatestPrepareInfo(fs, device.platform).time
            IN  Builds(dsync'.program) <=>
                    IF p = devenv.buildTime THEN FALSE
                    ELSE IF stamp.exists THEN p # stamp.time /\ devenv.requireBuild
                    ELSE devenv.requireBuild ]_vars

\* A device with a stamp older than the latest prepare has been built for:
\* the build has run and the stamp has not been written again yet.
C21_Witness ==
    /\ At("build") # {} /\ At("stamp") = {}
    /\ stamp.exists /\ stamp.time # getLatestPrepareInfo(fs, device.platform).time
    /\ devenv.requireBuild

\* The steps of a program that are called with a list of files.
FileSteps(steps) ==
    { i \in DOMAIN steps : steps[i].step \in {"transfer", "removeFiles"} }

\* C27: in a partial sync every file of the batch reaches the device under
\* the path mapFilePath gives it for the platform of the device that is
\* synced.
C27_MappedForDevicePlatform ==
    (dsync.kind \in {"flush", "remove"} /\ ~Deploys(dsync.program)) =>
        \A i \in FileSteps(dsync.program) :
            dsync.program[i].files =
                createLocalToDevicePaths(
                    { mapFilePath(file, device.platform) : file \in dsync.files })

\* C37: fileChangeRequiresBuild returns for every path it is asked about:
\* the walk over the ancestor directories ends.
C37_WalkTerminates ==
    asked # Null => asked.result \in {"true", "false"}

(***************************************************************************)
(* Properties of the package graph                                         *)
(***************************************************************************)
Constructed == pc \in {"source", "apply", "native", "done", "failed"}

Packages == DOMAIN source.packs

\* C3: after Project.Source has been constructed, every package held in
\* `dependencies` has availability Available.
C3_DependenciesAvailable ==
    Constructed =>
        \A name \in DOMAIN source.dependencies :
            source.packs[source.dependencies[name]].availability = "Available"

\* C4: after Project.Source has been constructed, no two distinct packages
\* of the same name are both Available.
C4_OneAvailablePerName ==
    Constructed =>
        \A p, q \in Packages :
            (/\ p # q
             /\ source.packs[p].name = source.packs[q].name
             /\ source.packs[p].availability = "Available")
                => source.packs[q].availability # "Available"

\* The packages whose script files hold the file.
Owners(file) == { p \in Packages : file \in Range(source.packs[p].scriptFiles) }

\* C22: every copy entry of the desired delta beneath output.modules copies
\* a file of a package that is Available; a package that is NotInstalled,
\* ShadowedByAncestor or ShadowedByDiverged has no copy entry.
C22_OnlyAvailableContribute ==
    Constructed =>
        LET copy == buildDelta(source, platform).copy
        IN  \A to \in DOMAIN copy :
                IsPrefix(OutPaths(platform).modules, to) =>
                    \A p \in Owners(copy[to]) : source.packs[p].availability = "Available"

\* The order in which selectDependencyPackages visits the packages.
RECURSIVE PreOrder(_)
RECURSIVE PreOrderAll(_, _)

PreOrderAll(children, i) ==
    IF i > Len(children) THEN <<>>
    ELSE PreOrder(children[i]) \o PreOrderAll(children, i + 1)

PreOrder(p) == <<p>> \o PreOrderAll(source.packs[p].children, 1)

Visit(p) == CHOOSE i \in DOMAIN PreOrder(<<>>) : PreOrder(<<>>)[i] = p

\* The installed packages of a name that no ancestor shadows: the ones that
\* reach the version comparison.
Candidates(name) ==
    { p \in Packages : /\ source.packs[p].type = "Package"
                       /\ source.packs[p].name = name
                       /\ source.packs[p].availability \in {"Available", "ShadowedByDiverged"} }

\* C5: once the graph is built, dependencies[name] is the candidate of the
\* highest version, the first one visited among those of that version; it
\* is Available and every other candidate is ShadowedByDiverged.
C5_HighestVersionWins ==
    pc = "deps" =>
        /\ \A p \in Packages :
               Candidates(source.packs[p].name) # {} => source.packs[p].name \in DOMAIN source.dependencies
        /\ \A name \in DOMAIN source.dependencies :
               LET chosen == source.dependencies[name]
               IN  /\ chosen \in Candidates(name)
                   /\ source.packs[chosen].availability = "Available"
                   /\ \A c \in Candidates(name) \ {chosen} :
                          /\ source.packs[c].availability = "ShadowedByDiverged"
                          /\ ~SemverGt(source.packs[c].version, source.packs[chosen].version)
                          /\ source.packs[c].version = source.packs[chosen].version
                                 => Visit(chosen) < Visit(c)

\* A later candidate of a higher version replaced the incumbent, and a
\* third one of the same version as the winner lost the tie.
C5_Witness ==
    /\ pc = "deps"
    /\ \E name \in DOMAIN source.dependencies :
           LET chosen == source.dependencies[name]
           IN  /\ \E c \in Candidates(name) :
                      /\ Visit(c) < Visit(chosen)
                      /\ SemverGt(source.packs[chosen].version, source.packs[c].version)
               /\ \E c \in Candidates(name) :
                      /\ Visit(chosen) < Visit(c)
                      /\ source.packs[c].version = source.packs[chosen].version

\* The orders in which the keys of a manifest's dependencies may be
\* enumerated.
Orders(deps) == { t \in [DOMAIN deps -> Range(deps)] : Range(t) = Range(deps) }

\* The manifests of the tree that list more than one dependency.
Reorderable(f) == { p \in DOMAIN f : f[p].json # Null /\ Len(f[p].json.dependencies) > 1 }

RECURSIVE ReorderAll(_, _)

ReorderAll(f, paths) ==
    IF paths = {} THEN {f}
    ELSE LET p == CHOOSE q \in paths : TRUE
         IN  UNION { ReorderAll([f EXCEPT ![p].json.dependencies = t], paths \ {p}) :
                         t \in Orders(f[p].json.dependencies) }

\* The installed tree with the keys of its manifests in every order.
Reorderings(f) == ReorderAll(f, Reorderable(f))

\* The flattened map: name -> version chosen.
Chosen(st) == [ name \in DOMAIN st.dependencies |-> st.packs[st.dependencies[name]].version ]

\* The candidates of a name have pairwise distinct versions.
DistinctVersions ==
    \A p, q \in Packages :
        (p # q /\ p \in Candidates(source.packs[p].name) /\ q \in Candidates(source.packs[p].name))
            => source.packs[p].version # source.packs[q].version

\* C24: when the candidates of every name have pairwise distinct versions,
\* the flattened map (its names and the version chosen for each) is the same
\* for every order in which the keys of each manifest are enumerated.
C24_OrderIndependent ==
    (pc = "deps" /\ DistinctVersions) =>
        \A g \in Reorderings(fs) :
            Chosen(selectDependencyPackages(g, NewSource, <<>>)) = Chosen(source)

\* The app lists three dependencies; two of them bring the same name in two
\* versions, and the one visited first is not the one chosen.
C24_Witness ==
    /\ pc = "deps" /\ DistinctVersions
    /\ Cardinality(Reorderings(fs)) >= 6
    /\ \E name \in DOMAIN source.dependencies :
           \E c \in Candidates(name) : Visit(c) < Visit(source.dependencies[name])

\* The packages above a package in the tree.
ProperAncestors(p) == { q \in Packages : IsProperPrefix(q, p) }

\* A package of the tree that is installed and whose name was resolved at
\* its grandparent.
ShadowedInstalled(p) ==
    /\ source.packs[p].type # "App"
    /\ Exists(fs, Append(p, nmPackageJson))
    /\ source.packs[p].name \in source.packs[p].resolvedAtGrandparent

\* C25: a package other than the app whose name is in its
\* resolvedAtGrandparent is ShadowedByAncestor, is not in `dependencies` and
\* has no children; and no package other than the app that is Available has
\* a package of its name above it in the tree.
C25_AncestorShadowing ==
    /\ \A p \in Packages :
           ShadowedInstalled(p) =>
               /\ source.packs[p].availability = "ShadowedByAncestor"
               /\ source.packs[p].children = <<>>
               /\ \A name \in DOMAIN source.dependencies : source.dependencies[name] # p
    /\ \A p \in Packages :
           (source.packs[p].type # "App" /\ source.packs[p].availability = "Available") =>
               \A q \in ProperAncestors(p) : source.packs[q].name # source.packs[p].name

(***************************************************************************)
(* Properties of the delta                                                 *)
(***************************************************************************)
RECURSIVE ReplaceAllInName(_, _)

\* The name with every "." + plat + "." replaced by ".".
ReplaceAllInName(name, plat) ==
    IF HasInfix(name, plat) THEN ReplaceAllInName(ReplaceInName(name, plat), plat) ELSE name

ReplaceAllInPath(path, plat) == [ k \in DOMAIN path |-> ReplaceAllInName(path[k], plat) ]

\* C23: of the script files of a dependency, the desired delta leaves out
\* those whose name holds the infix of another platform, and copies every
\* other one to output.modules/<pack.name>/<file.path> with every infix of
\* the platform of the target dropped from the path.
C23_PlatformFilesMapped ==
    Constructed =>
        LET copy == buildDelta(source, platform).copy
        IN  \A key \in DOMAIN source.dependencies :
                LET pack == source.packs[source.dependencies[key]]
                IN  \A file \in Range(pack.scriptFiles) :
                        IF \E other \in Platforms \ {platform} : HasInfix(file.name, other)
                        THEN \A to \in DOMAIN copy : copy[to] # file
                        ELSE LET to == OutPaths(platform).modules \o pack.name
                                           \o ReplaceAllInPath(file.path, platform)
                             IN  to \in DOMAIN copy /\ copy[to] = file

\* C1: after rebuildDelta, every proper prefix directory of every copy
\* target either exists on disk or is in mkdir.
C1_DeltaSafety ==
    \A to \in DOMAIN delta.copy :
        \A dir \in ProperPrefixes(to) :
            dir = <<>> \/ IsDirectory(planFs, dir) \/ dir \in delta.mkdir

\* C2: a second rebuild with nothing touched in between computes a delta
\* with empty copy and rmfile sets and a mkdir set of existing directories.
C2_RebuildIdempotent ==
    (round > 1 /\ pc = "apply") =>
        /\ DOMAIN delta.copy = {}
        /\ delta.rmfile = {}
        /\ \A dir \in delta.mkdir : IsDirectory(planFs, dir)

\* C10: no directory is in both mkdir and rmdir, and no file is in both
\* copy and rmfile.
C10_DeltaConsistent ==
    /\ delta.mkdir \cap delta.rmdir = {}
    /\ DOMAIN delta.copy \cap delta.rmfile = {}

\* A delta that creates, copies over an older file, keeps a directory that
\* exists, and removes a file and a directory.
C10_Witness ==
    /\ pc = "apply"
    /\ delta.mkdir # {}
    /\ delta.rmdir # {}
    /\ delta.rmfile # {}
    /\ \E to \in DOMAIN delta.copy : IsFile(planFs, to)
    /\ \E dir \in buildDelta(source, platform).mkdir : IsDirectory(planFs, dir)

\* The phase of applyDelta a file-system call belongs to.
Phase(op) ==
    CASE op = "mkdir" -> 1 [] op = "copy" -> 2 [] op = "rmfile" -> 3 [] op = "rmdir" -> 4

\* Call `a` may be issued before call `b`: no later phase; of two
\* createDirectory calls the lower path first, of two deleteDirectory calls
\* the higher path first; a directory is not created before its parent nor
\* deleted before a directory beneath it.
MayPrecede(a, b) ==
    /\ Phase(a.op) <= Phase(b.op)
    /\ (a.op = "mkdir" /\ b.op = "mkdir") =>
           PathLess(a.path, b.path) /\ ~IsProperPrefix(b.path, a.path)
    /\ (a.op = "rmdir" /\ b.op = "rmdir") =>
           PathLess(b.path, a.path) /\ ~IsProperPrefix(a.path, b.path)

OpPaths(q, kind) == { o.path : o \in { x \in Range(q) : x.op = kind } }

\* C11: applyDelta issues its file-system calls in four phases, all
\* createDirectory calls in ascending path order, then the copyFile calls,
\* then the deleteFile calls, then the deleteDirectory calls in descending
\* path order: it issues every call of the delta, and every call it issues
\* is one that may precede each call it issues later.
C11_ApplyOrder ==
    [][ /\ (pc = "source" /\ pc' = "apply") =>
              /\ OpPaths(queue', "mkdir") = delta'.mkdir
              /\ OpPaths(queue', "copy") = DOMAIN delta'.copy
              /\ OpPaths(queue', "rmfile") = delta'.rmfile
              /\ OpPaths(queue', "rmdir") = delta'.rmdir
        /\ (pc = "apply" /\ pc' = "apply") =>
              /\ queue' = Tail(queue)
              /\ fs' = applyOp(fs, Head(queue), clock).fs
              /\ \A i \in DOMAIN queue' : MayPrecede(Head(queue), queue'[i]) ]_vars

\* applyDelta is about to create a directory whose parent it has created,
\* and has still to delete a directory and a directory beneath it.
C11_Witness ==
    /\ pc = "apply"
    /\ queue # <<>>
    /\ Head(queue).op = "mkdir"
    /\ Parent(Head(queue).path) \in delta.mkdir
    /\ ~Exists(planFs, Parent(Head(queue).path))
    /\ IsDirectory(fs, Parent(Head(queue).path))
    /\ \E i, j \in DOMAIN queue :
          /\ queue[i].op = "rmdir" /\ queue[j].op = "rmdir"
          /\ IsProperPrefix(queue[j].path, queue[i].path)
    /\ \E i \in DOMAIN queue : queue[i].op = "copy"
    /\ \E i \in DOMAIN queue : queue[i].op = "rmfile"

\* The paths a directory holds, at any depth.
Inside(f, dir) == { p \in DOMAIN f : IsProperPrefix(dir, p) }

\* C28: applyDelta deletes a directory of rmdir only when it is empty: the
\* files it held have been removed by the deleteFile calls and the
\* directories it held have been deleted before it.
C28_DeletedDirectoryIsEmpty ==
    [][ (pc = "apply" /\ queue # <<>> /\ queue' = Tail(queue)
            /\ Head(queue).op = "rmdir") =>
                Inside(fs, Head(queue).path) = {} ]_vars

\* C29: no copy target of the delta lies in a directory of rmdir, and every
\* file applyDelta has copied is there when applyDelta has finished.
C29_CopiesOutsideRmdir ==
    /\ \A to \in DOMAIN delta.copy, dir \in delta.rmdir : ~IsProperPrefix(dir, to)
    /\ pc \in {"native", "done"} => \A to \in DOMAIN delta.copy : IsFile(fs, to)

AnyChange(info) ==
    \/ info.appFilesChanged
    \/ info.appResourcesChanged
    \/ info.modulesChanged
    \/ info.configChanged
    \/ info.packageChanged
    \/ info.nativeChanged

PrepareInfoEntry(f) ==
    IF Exists(f, buildInfoFile(platform)) THEN f[buildInfoFile(platform)] ELSE Null

\* C9: a construction of ProjectChangesInfo that ends with one of the six
\* flags true writes the record, with the time of the construction; one that
\* ends with all six false leaves the file as it was.
C9_RewrittenIffChanged ==
    [][ (prep' # prep \/ PrepareInfoEntry(fs') # PrepareInfoEntry(fs)) =>
            IF AnyChange(prep')
            THEN /\ PrepareInfoEntry(fs') = JsonEntry(clock, prep'.prepareInfo)
                 /\ prep'.prepareInfo.time = DateString(clock)
            ELSE PrepareInfoEntry(fs') = PrepareInfoEntry(fs) ]_vars

\* A prepare found nothing newer but a native file of a plugin, and rewrote
\* the record that an earlier prepare had written.
C9_Witness ==
    /\ prep # Null
    /\ prep.nativeChanged
    /\ ~prep.packageChanged /\ ~prep.appFilesChanged /\ ~prep.appResourcesChanged
    /\ PrepareInfoEntry(fs) = JsonEntry(clock, prep.prepareInfo)
    /\ prep.prepareInfo.time = DateString(clock)

\* C26: every rewrite of the record of an earlier prepare stores a time
\* greater than the time the record held.
C26_TimeStrictlyIncreases ==
    [][ (/\ PrepareInfoEntry(fs) # Null
         /\ PrepareInfoEntry(fs') # PrepareInfoEntry(fs)) =>
            PrepareInfoEntry(fs').json.time > PrepareInfoEntry(fs).json.time ]_vars

\* The result of a prepare in this state whose options differ from the
\* record on disk satisfies P.
ForOptionsThatDiffer(P(_)) ==
    \A mode \in PrepareModes, options \in Options :
        LET stored == getLatestPrepareInfo(fs, platform)
        IN  (/\ stored # Null
             /\ (options.bundle # stored.bundle \/ options.release # stored.release)) =>
                LET r == ProjectChangesInfo(fs, platform, mode.force,
                                            mode.skipModulesAndResources, options, clock)
                IN  /\ P(r.info)
                    /\ r.info.prepareInfo = [ time |-> DateString(clock),
                                              bundle |-> options.bundle,
                                              release |-> options.release ]
                    /\ PrepareInfoEntry(r.fs) = JsonEntry(clock, r.info.prepareInfo)

FourForced(info) ==
    /\ info.appFilesChanged /\ info.appResourcesChanged
    /\ info.modulesChanged /\ info.configChanged

SixForced(info) == FourForced(info) /\ info.packageChanged /\ info.nativeChanged

\* C30 as stated: a prepare whose bundle or release option differs from the
\* record ends with all six change flags true, and writes the record with
\* the options of the prepare and the time of the prepare.
C30_AllFlagsForced == ForOptionsThatDiffer(SixForced)

\* C30: a prepare whose bundle or release option differs from the record
\* ends with appFilesChanged, appResourcesChanged, modulesChanged and
\* configChanged true, and writes the record with the options of the
\* prepare and the time of the prepare.
C30_FourFlagsForced == ForOptionsThatDiffer(FourForced)

\* A prepare that was not forced (it counted a newer file of node_modules)
\* has found neither an application file nor a resource that was ever
\* saved again, and has ended with the four flags true and packageChanged
\* and nativeChanged false; it has written the record.
C30_Witness ==
    /\ prep # Null
    /\ prep.newFiles > 0
    /\ fs[<<nmApp, nmMainJs>>].mtime = 1
    /\ fs[configFiles(platform)[1]].mtime = 1
    /\ FourForced(prep)
    /\ ~prep.packageChanged /\ ~prep.nativeChanged
    /\ PrepareInfoEntry(fs) = JsonEntry(clock, prep.prepareInfo)

\* C38: in a ProjectChangesInfo that has been constructed nativeChanged and
\* packageChanged each imply modulesChanged, and modulesChanged and
\* appResourcesChanged each imply configChanged, so changesRequireBuild
\* implies hasChanges; and the prepare that reports changesRequireBuild has
\* written the record with the time of that prepare.
C38_BuildImpliesRefreshed ==
    [][ (prep' # prep \/ PrepareInfoEntry(fs') # PrepareInfoEntry(fs)) =>
            /\ prep'.nativeChanged => prep'.modulesChanged
            /\ prep'.packageChanged => prep'.modulesChanged
            /\ (prep'.modulesChanged \/ prep'.appResourcesChanged) => prep'.configChanged
            /\ changesRequireBuild(prep') => hasChanges(prep')
            /\ (prep'.packageChanged \/ prep'.appResourcesChanged \/ prep'.nativeChanged) =>
                  /\ prep'.prepareInfo.time = DateString(clock)
                  /\ PrepareInfoEntry(fs') = JsonEntry(clock, prep'.prepareInfo) ]_vars

\* A prepare that was not forced has found a newer native file of a plugin
\* and nothing else: it reports that a build is required, with
\* modulesChanged and configChanged set, and has written the record.
C38_Witness ==
    /\ prep # Null
    /\ prep.newFiles > 0
    /\ prep.nativeChanged /\ prep.modulesChanged /\ prep.configChanged
    /\ ~prep.packageChanged /\ ~prep.appResourcesChanged /\ ~prep.appFilesChanged
    /\ changesRequireBuild(prep)
    /\ PrepareInfoEntry(fs) = JsonEntry(clock, prep.prepareInfo)

(***************************************************************************)
(* Properties of the live sync                                             *)
(***************************************************************************)
Drained(i) == ~syncPending(batch[i]) /\ ~batch[i].timer

Deliveries(a) ==
    { k \in DOMAIN syncs : syncs[k].batch = a.batch /\ a.path \in syncs[k].files }

\* C6: every path passed to addFile is delivered to exactly one sync
\* invocation, together with the other paths its batch has accumulated.
C6_NoPathDropped ==
    \A a \in added :
        /\ Cardinality(Deliveries(a)) <= 1
        /\ Drained(a.batch) => Cardinality(Deliveries(a)) = 1

\* C7: at most one flush is in progress; a batch that a newer one has
\* replaced is neither pending nor armed; a batch calls its done callback at
\* most once, and exactly once by the time it is drained; and a batch is
\* pending from its first addFile until its done callback has completed.
C7_FlushesSerialized ==
    /\ Cardinality({ i \in DOMAIN batch : batch[i].inProgress }) <= 1
    /\ \A i \in DOMAIN batch :
           /\ i < Len(batch) => Drained(i)
           /\ batch[i].doneCalls <= 1
           /\ Drained(i) => batch[i].doneCalls = 1
           /\ (batch[i].doneCalls = 0 \/ batch[i].inProgress) => syncPending(batch[i])

\* A file event arrived while the flush of the batch was in progress, and
\* no second batch was started.
C7_Witness ==
    /\ Len(batch) = 1
    /\ batch[1].inProgress
    /\ \E a \in added : a.batch = 1 /\ Deliveries(a) = {}

Syncable(filePath) == ~inAppResources(filePath) /\ ~isFileExcluded(filePath)

\* C8: an add or change event that finds the contents the previous add or
\* change event for the path found, with no unlink in between, enqueues
\* nothing and causes no device action; one that finds a syncable path for
\* the first time, or with other contents, enqueues it.
C8_HashSuppression ==
    [][ (lastEvent'.n = lastEvent.n + 1 /\ lastEvent'.event \in {"add", "change"}) =>
            LET filePath == lastEvent'.path
            IN  /\ seen[filePath] = lastEvent'.hash =>
                       UNCHANGED <<batch, added, syncs, removed>>
                /\ (Syncable(filePath) /\ seen[filePath] \notin {lastEvent'.hash, "unlinked"}) =>
                       /\ filePath \in batch'[Len(batch')].files
                       /\ [path |-> filePath, batch |-> Len(batch')] \in added' ]_vars

\* Two events in a row for main.js with the same contents: the first was
\* enqueued, the second was not.
C8_Witness ==
    /\ lastEvent.n = 2
    /\ lastEvent.event = "change"
    /\ lastEvent.path = pathMain
    /\ lastEvent.hash = "h2"
    /\ lastEvent.prev = "h2"
    /\ fileHashes[pathMain] = "h2"
    /\ added = { [path |-> pathMain, batch |-> 1] }
    /\ batch[1].files = { pathMain }
    /\ syncs = <<>>

\* The path lies in a directory named App_Resources.
UnderAppResources(filePath) ==
    \E i \in 1..(Len(filePath) - 1) : filePath[i] = nmAppResources

\* C34: an event of any type for a path under App_Resources leaves the
\* hashes, the batches and the paths enqueued as they were, and causes
\* neither a sync nor the removal of a file from a device.
C34_AppResourcesIgnored ==
    [][ (lastEvent'.n = lastEvent.n + 1 /\ UnderAppResources(lastEvent'.path)) =>
            UNCHANGED <<fileHashes, batch, added, syncs, removed>> ]_vars

\* The icon under App_Resources has been reported deleted after a script
\* was enqueued: the icon has no hash and is in no batch.
C34_Witness ==
    /\ lastEvent.n = 2
    /\ lastEvent.event = "unlink"
    /\ lastEvent.path = pathIcon
    /\ pathIcon \notin DOMAIN fileHashes
    /\ added = { [path |-> pathMain, batch |-> 1] }
    /\ batch[1].files = { pathMain }
    /\ removed = <<>>

\* C39: an unlink event for a path that is synced leaves the path without a
\* hash and has its file removed from the devices; the add or change event
\* that follows the unlink of the path is enqueued, whatever the contents
\* it finds.
C39_UnlinkForgetsHash ==
    [][ (lastEvent'.n = lastEvent.n + 1 /\ Syncable(lastEvent'.path)) =>
            LET filePath == lastEvent'.path
            IN  /\ lastEvent'.event = "unlink" =>
                      /\ filePath \notin DOMAIN fileHashes'
                      /\ removed' = Append(removed, filePath)
                /\ (lastEvent'.event \in {"add", "change"} /\ seen[filePath] = "unlinked") =>
                      /\ filePath \in batch'[Len(batch')].files
                      /\ [path |-> filePath, batch |-> Len(batch')] \in added' ]_vars

\* C40: a debug session on a physical device honours the break request:
\* the launch request sent to the device carries shouldBreak = true when
\* debugOptions.debugBrk is set and shouldBreak = false when it is not, and
\* the debugger client is wired with the caller's debugOptions, so that
\* debugOptions.chrome selects the Chrome DevTools proxy.
C40_BreakRequestHonoured ==
    (dbg # Null /\ dbg.entry = "debug" /\ dbg.started) =>
        /\ dbg.launch # <<>> =>
              dbg.launch = << Bool(dbg.options.debugBrk) >>
        /\ dbg.client # "none" =>
              /\ dbg.wiredWith = Obj(dbg.options)
              /\ dbg.client = "chrome" <=> dbg.options.chrome

====
